---- MODULE Spec2Model ----
(***************************************************************************)
(* Sonory python-audio-analyzer: the category mapper of the YAMNet wrapper *)
(* (models/yamnet_wrapper.py) and the URL acquisition of the audio         *)
(* processor (services/audio_processor.py).                                *)
(*                                                                         *)
(* Scores, confidences and environment scores are Python floats, kept bit  *)
(* for bit (see Float); Score(n) is the float of the literal n / 10000.    *)
(* Durations and ratios of integers are exact fractions [num, den].  The   *)
(* Japanese                                                                *)
(* category labels are written with ASCII glosses (car_sound for the       *)
(* label of "Car", unknown_sound for the fallback label); equal labels of  *)
(* the source have equal glosses and different labels different glosses.   *)
(***************************************************************************)
EXTENDS Integers, Sequences, FiniteSets, TLC

(***************************************************************************)
(* Bounds of the model.                                                    *)
(***************************************************************************)
MaxPairs == 2

(***************************************************************************)
(* Static tables of YAMNetClassifier, in source order.                     *)
(***************************************************************************)
AUDIOSET_TO_JAPANESE ==
  << <<"Motor vehicle (road)", "car_sound">>,
     <<"Car", "car_sound">>,
     <<"Vehicle horn, car horn, honking", "car_sound">>,
     <<"Truck", "truck_sound">>,
     <<"Motorcycle", "motorcycle_sound">>,
     <<"Bus", "bus_sound">>,
     <<"Traffic noise, roadway noise", "traffic_sound">>,
     <<"Engine", "engine_sound">>,
     <<"Accelerating, revving, vroom", "car_sound">>,
     <<"Car alarm", "car_sound">>,
     <<"Tire squeal", "car_sound">>,
     <<"Train", "train_sound">>,
     <<"Rail transport", "train_sound">>,
     <<"Train horn", "train_sound">>,
     <<"Railroad car, train wagon", "train_sound">>,
     <<"Aircraft", "airplane_sound">>,
     <<"Airplane", "airplane_sound">>,
     <<"Helicopter", "helicopter_sound">>,
     <<"Bird", "bird_call">>,
     <<"Bird vocalization, bird call, bird song", "bird_call">>,
     <<"Chirp, tweet", "bird_call">>,
     <<"Rain", "rain_sound">>,
     <<"Rainfall", "rain_sound">>,
     <<"Rain on surface", "rain_sound">>,
     <<"Wind", "wind_sound">>,
     <<"Wind noise (microphone)", "wind_sound">>,
     <<"Thunder", "thunder_sound">>,
     <<"Thunderstorm", "thunder_sound">>,
     <<"Water", "water_sound">>,
     <<"Stream", "water_sound">>,
     <<"Ocean", "sea_sound">>,
     <<"Waves, surf", "sea_sound">>,
     <<"Animal", "animal_voice">>,
     <<"Dog", "dog_bark">>,
     <<"Cat", "cat_meow">>,
     <<"Bark", "dog_bark">>,
     <<"Meow", "cat_meow">>,
     <<"Roar", "animal_voice">>,
     <<"Speech", "human_voice">>,
     <<"Human voice", "human_voice">>,
     <<"Conversation", "human_voice">>,
     <<"Child speech, kid speaking", "human_voice">>,
     <<"Male speech, man speaking", "human_voice">>,
     <<"Female speech, woman speaking", "human_voice">>,
     <<"Laughter", "laughter">>,
     <<"Crying, sobbing", "crying">>,
     <<"Shout", "shouting">>,
     <<"Whispering", "whisper">>,
     <<"Sneeze", "sneeze">>,
     <<"Cough", "cough">>,
     <<"Music", "music">>,
     <<"Musical instrument", "music">>,
     <<"Singing", "music">>,
     <<"Piano", "music">>,
     <<"Guitar", "music">>,
     <<"Drum", "music">>,
     <<"Bass drum", "music">>,
     <<"Electronic music", "music">>,
     <<"Rock music", "music">>,
     <<"Pop music", "music">>,
     <<"Construction noise", "construction_sound">>,
     <<"Jackhammer", "construction_sound">>,
     <<"Tools", "construction_sound">>,
     <<"Power tool", "construction_sound">>,
     <<"Drilling", "construction_sound">>,
     <<"Hammer", "construction_sound">>,
     <<"Saw", "construction_sound">>,
     <<"Door", "door_sound">>,
     <<"Doorbell", "bell_sound">>,
     <<"Footsteps", "footsteps">>,
     <<"Typing", "typing_sound">>,
     <<"Clapping", "applause">>,
     <<"Microwave oven", "appliance_sound">>,
     <<"Vacuum cleaner", "vacuum_sound">>,
     <<"Air conditioning", "air_conditioner_sound">>,
     <<"Television", "tv_sound">>,
     <<"Radio", "radio_sound">>,
     <<"Siren", "siren">>,
     <<"Emergency vehicle", "emergency_vehicle">>,
     <<"Fire alarm", "fire_alarm">>,
     <<"Smoke detector", "smoke_detector">>,
     <<"Alarm", "alarm_sound">>,
     <<"Beep, bleep", "electronic_sound">>,
     <<"Click", "click_sound">>,
     <<"Tick", "clock_sound">>,
     <<"Buzz", "buzzer_sound">>,
     <<"Dial tone", "phone_sound">>,
     <<"Phone", "phone_sound">>,
     <<"Ringtone", "ringtone">>,
     <<"Silence", "silence">>,
     <<"White noise", "white_noise">>,
     <<"Static", "noise">>,
     <<"Hum", "hum_sound">>,
     <<"Rumble", "rumble">>,
     <<"Explosion", "explosion_sound">>,
     <<"Gunshot, gunfire", "gunshot">>,
     <<"Fireworks", "fireworks_sound">> >>

ENVIRONMENT_KEYWORDS ==
  << <<"urban", <<"Motor vehicle", "Car", "Truck", "Motorcycle", "Bus", "Traffic", "Train", "Construction", "Power tool", "Siren">> >>,
     <<"natural", <<"Bird", "Rain", "Wind", "Water", "Stream", "Ocean", "Thunder", "Insect", "Animal">> >>,
     <<"indoor", <<"Speech", "Music", "Television", "Radio", "Air conditioning", "Door", "Footsteps", "Typing">> >>,
     <<"outdoor", <<"Bird", "Rain", "Wind", "Traffic", "Construction", "Aircraft", "Thunder", "Water">> >> >>

keyword_mappings ==
  << << <<"car", "vehicle", "motor", "auto">>, "car_sound" >>,
     << <<"truck", "lorry">>, "truck_sound" >>,
     << <<"bike", "motorcycle", "motorbike">>, "motorcycle_sound" >>,
     << <<"bus">>, "bus_sound" >>,
     << <<"train", "rail", "locomotive">>, "train_sound" >>,
     << <<"traffic", "road">>, "traffic_sound" >>,
     << <<"aircraft", "plane", "airplane", "jet">>, "airplane_sound" >>,
     << <<"helicopter", "chopper">>, "helicopter_sound" >>,
     << <<"bird", "chirp", "tweet", "song">>, "bird_call" >>,
     << <<"rain", "rainfall", "drizzle">>, "rain_sound" >>,
     << <<"wind", "breeze", "gust">>, "wind_sound" >>,
     << <<"water", "stream", "river", "ocean", "wave", "surf">>, "water_sound" >>,
     << <<"thunder", "storm">>, "thunder_sound" >>,
     << <<"dog", "bark", "woof">>, "dog_bark" >>,
     << <<"cat", "meow", "purr">>, "cat_meow" >>,
     << <<"animal", "creature">>, "animal_voice" >>,
     << <<"speech", "voice", "speak", "talk", "conversation">>, "human_voice" >>,
     << <<"laugh", "giggle", "chuckle">>, "laughter" >>,
     << <<"cry", "weep", "sob">>, "crying" >>,
     << <<"shout", "yell", "scream">>, "shouting" >>,
     << <<"whisper">>, "whisper" >>,
     << <<"sneeze">>, "sneeze" >>,
     << <<"cough">>, "cough" >>,
     << <<"music", "musical", "song", "melody">>, "music" >>,
     << <<"sing", "vocal", "choir">>, "music" >>,
     << <<"piano", "keyboard">>, "music" >>,
     << <<"guitar", "bass">>, "music" >>,
     << <<"drum", "percussion">>, "music" >>,
     << <<"construction", "building", "work">>, "construction_sound" >>,
     << <<"drill", "drilling">>, "construction_sound" >>,
     << <<"hammer", "hammering">>, "construction_sound" >>,
     << <<"saw", "sawing", "cutting">>, "construction_sound" >>,
     << <<"tool", "power tool">>, "construction_sound" >>,
     << <<"door", "gate">>, "door_sound" >>,
     << <<"bell", "doorbell", "chime">>, "bell_sound" >>,
     << <<"foot", "step", "walk">>, "footsteps" >>,
     << <<"type", "typing", "keyboard">>, "typing_sound" >>,
     << <<"clap", "applause">>, "applause" >>,
     << <<"microwave", "oven">>, "appliance_sound" >>,
     << <<"vacuum", "cleaner">>, "vacuum_sound" >>,
     << <<"air conditioning", "ac", "hvac">>, "air_conditioner_sound" >>,
     << <<"tv", "television">>, "tv_sound" >>,
     << <<"radio">>, "radio_sound" >>,
     << <<"siren", "alarm", "warning">>, "alarm_sound" >>,
     << <<"emergency", "ambulance", "fire truck">>, "emergency_vehicle" >>,
     << <<"beep", "bleep", "buzz", "buzzer">>, "electronic_sound" >>,
     << <<"phone", "telephone", "ring", "ringtone">>, "phone_sound" >>,
     << <<"silence", "quiet">>, "silence" >>,
     << <<"noise", "static", "hiss">>, "noise" >>,
     << <<"tick", "clock">>, "clock_sound" >>,
     << <<"explosion", "blast", "bang">>, "explosion_sound" >>,
     << <<"gunshot", "gun", "shot">>, "gunshot" >>,
     << <<"firework", "firecracker">>, "fireworks_sound" >> >>

\* env_scores literal of _estimate_environment_type: the four keys in order.
ENV_TYPES == <<"urban", "natural", "indoor", "outdoor">>

\* The fallback label of _convert_to_japanese.
UNKNOWN_LABEL == "unknown_sound"

\* Python's None as returned by _find_japanese_category.
None == "None"

(***************************************************************************)
(* Python string operations on ASCII strings.                              *)
(***************************************************************************)
UpperCase == "ABCDEFGHIJKLMNOPQRSTUVWXYZ"
LowerCase == "abcdefghijklmnopqrstuvwxyz"

LowerChar(c) ==
  IF \E i \in 1..Len(UpperCase) : SubSeq(UpperCase, i, i) = c
  THEN LET i == CHOOSE j \in 1..Len(UpperCase) : SubSeq(UpperCase, j, j) = c
       IN  SubSeq(LowerCase, i, i)
  ELSE c

\* str.lower()
RECURSIVE lower(_)
lower(s) ==
  IF Len(s) = 0 THEN ""
  ELSE LowerChar(SubSeq(s, 1, 1)) \o lower(SubSeq(s, 2, Len(s)))

\* Python's `sub in s` on strings.
StrIn(sub, s) ==
  \E i \in 0..(Len(s) - Len(sub)) : SubSeq(s, i + 1, i + Len(sub)) = sub

\* str.startswith(prefix)
StartsWith(s, prefix) ==
  Len(prefix) <= Len(s) /\ SubSeq(s, 1, Len(prefix)) = prefix

(***************************************************************************)
(* YAMNetClassifier._find_japanese_category                                *)
(***************************************************************************)
\* Variant of FirstOf that takes the entry the loop reaches last.
FirstOf_Last(positions) == CHOOSE i \in positions : \A j \in positions : j <= i

\* The least index of a non-empty set of table positions: the entry a
\* `for` loop over the table reaches first.
FirstOf(positions) == CHOOSE i \in positions : \A j \in positions : i <= j

\* `audioset_class in AUDIOSET_TO_JAPANESE` and the dict lookup (the keys of
\* the dict are distinct); None when the class is not a key.
ExactLookup(audioset_class) ==
  LET hits == {i \in DOMAIN AUDIOSET_TO_JAPANESE :
                 AUDIOSET_TO_JAPANESE[i][1] = audioset_class}
  IN  IF hits = {} THEN None ELSE AUDIOSET_TO_JAPANESE[FirstOf(hits)][2]

\* audioset_key.lower() for every key of the table, by position.
audioset_keys_lower ==
  [i \in DOMAIN AUDIOSET_TO_JAPANESE |-> lower(AUDIOSET_TO_JAPANESE[i][1])]

\* The bidirectional substring test of the loop over the table.
PartialMatch(audioset_lower, audioset_key_lower) ==
  \/ StrIn(audioset_key_lower, audioset_lower)
  \/ StrIn(audioset_lower, audioset_key_lower)

\* The loop over AUDIOSET_TO_JAPANESE.items(): the category of the first key
\* that matches; None when the loop ends without a return.
PartialLookup(audioset_lower) ==
  LET hits == {i \in DOMAIN AUDIOSET_TO_JAPANESE :
                 PartialMatch(audioset_lower, audioset_keys_lower[i])}
  IN  IF hits = {} THEN None ELSE AUDIOSET_TO_JAPANESE[FirstOf(hits)][2]

\* The inner loop `for keyword in keywords` of one keyword group.
KeywordInGroup(audioset_lower, keywords) ==
  \E k \in DOMAIN keywords : StrIn(keywords[k], audioset_lower)

\* The loop over keyword_mappings.items(): the category of the first group
\* with a matching keyword; None when the loop ends without a return.
KeywordLookup(audioset_lower) ==
  LET hits == {g \in DOMAIN keyword_mappings :
                 KeywordInGroup(audioset_lower, keyword_mappings[g][1])}
  IN  IF hits = {} THEN None ELSE keyword_mappings[FirstOf(hits)][2]

_find_japanese_category(audioset_class) ==
  LET exact == ExactLookup(audioset_class)
      audioset_lower == lower(audioset_class)
      partial == PartialLookup(audioset_lower)
  IN  IF exact # None THEN exact
      ELSE IF partial # None THEN partial
      ELSE KeywordLookup(audioset_lower)

(***************************************************************************)
(* Python dicts keep insertion order: a dict is a sequence of              *)
(* [key, value] records with distinct keys.                                *)
(***************************************************************************)
DictHas(d, k) == \E i \in DOMAIN d : d[i].key = k

DictGet(d, k) == d[CHOOSE i \in DOMAIN d : d[i].key = k].value

\* d[k] = v: an existing key keeps its position, a new key goes last.
DictSet(d, k, v) ==
  IF DictHas(d, k)
  THEN [i \in DOMAIN d |-> IF d[i].key = k THEN [key |-> k, value |-> v] ELSE d[i]]
  ELSE Append(d, [key |-> k, value |-> v])

\* zip(class_names, scores) stops at the shorter list.
ZipLen(class_names, scores) ==
  IF Len(class_names) < Len(scores) THEN Len(class_names) ELSE Len(scores)

(***************************************************************************)
(* Exact fractions num/den (den > 0) for the results of true division.     *)
(***************************************************************************)
Frac(n, d) == [num |-> n, den |-> d]

FracLess(a, b) == a.num * b.den < b.num * a.den

\* math.gcd
RECURSIVE GCD(_, _)
GCD(a, b) == IF b = 0 THEN a ELSE GCD(b, a % b)

(***************************************************************************)
(* Python floats (IEEE 754 doubles) that are not negative.  A float is     *)
(* kept exactly: it is m * 2^exp with the 53-bit mantissa                  *)
(* m = hi * Limb + lo, 2^52 <= m < 2^53, and 0.0 is the float with         *)
(* hi = lo = exp = 0.  Every operation rounds its exact result to the      *)
(* nearest float, a result halfway between two floats to the one with the  *)
(* even mantissa.                                                          *)
(***************************************************************************)
Limb == 2^27

Float(hi, lo, exp) == [hi |-> hi, lo |-> lo, exp |-> exp]

FloatZero == Float(0, 0, 0)

\* The number of bits of the int n, 0 <= n < 2^31
BitLength(n) == Cardinality({k \in 0..30 : 2^k <= n})

\* float(n) of the int n, 0 <= n < 2^31: n moved up by 53 - BitLength(n) bits
FloatOfInt(n) ==
  IF n = 0 THEN FloatZero
  ELSE IF BitLength(n) <= 26
  THEN Float(n * 2^(26 - BitLength(n)), 0, BitLength(n) - 53)
  ELSE Float(n \div 2^(BitLength(n) - 26),
             (n % 2^(BitLength(n) - 26)) * 2^(53 - BitLength(n)),
             BitLength(n) - 53)

\* The mantissa mh * Limb + ml, plus one when up, at the exponent e.
FloatUp(mh, ml, e, up) ==
  IF ~up THEN Float(mh, ml, e)
  ELSE IF ml + 1 < Limb THEN Float(mh, ml + 1, e)
  ELSE IF mh + 1 < 2^26 THEN Float(mh + 1, 0, e)
  ELSE Float(2^25, 0, e + 1)

\* The last s bits of h * Limb + l are dropped and the rest is rounded;
\* sticky tells that the exact value is above (h * Limb + l) * 2^e.
FloatDrop(h, l, e, s, sticky) ==
  FloatUp(h \div 2^s, l \div 2^s + (h % 2^s) * (Limb \div 2^s), e + s,
          \/ l % 2^s > 2^(s - 1)
          \/ l % 2^s = 2^(s - 1) /\ (sticky \/ (l \div 2^s) % 2 = 1))

\* The float nearest to a value of 54 to 57 significant bits:
\* (h * Limb + l) * 2^e, and a little more when sticky.
FloatRound(h, l, e, sticky) ==
  FloatDrop(h, l, e,
            IF h < 2^27 THEN 1 ELSE IF h < 2^28 THEN 2 ELSE IF h < 2^29 THEN 3 ELSE 4,
            sticky)

\* x < y
FloatLess(x, y) ==
  IF y = FloatZero THEN FALSE
  ELSE IF x = FloatZero THEN TRUE
  ELSE \/ x.exp < y.exp
       \/ x.exp = y.exp /\ x.hi < y.hi
       \/ x.exp = y.exp /\ x.hi = y.hi /\ x.lo < y.lo

\* The sum of 4 * (xh * Limb + xl) and (yh * Limb + yl), rounded; both in
\* units of 2^e.
FloatAddAligned(xh, xl, yh, yl, e, sticky) ==
  FloatRound(xh * 4 + (xl * 4 + yl) \div Limb + yh, (xl * 4 + yl) % Limb, e, sticky)

\* x + y for x.exp >= y.exp, both positive.  In units of 2^(x.exp - 2) the
\* mantissa of y is moved down by d - 2 bits (up for d < 2); the bits that
\* fall off make the sum sticky.
FloatAddOrdered(x, y, d) ==
  IF d >= 55 THEN x
  ELSE IF d <= 2
  THEN FloatAddAligned(x.hi, x.lo,
                       y.hi * 2^(2 - d) + (y.lo * 2^(2 - d)) \div Limb,
                       (y.lo * 2^(2 - d)) % Limb, x.exp - 2, FALSE)
  ELSE IF d - 2 < 27
  THEN FloatAddAligned(x.hi, x.lo,
                       y.hi \div 2^(d - 2),
                       y.lo \div 2^(d - 2) + (y.hi % 2^(d - 2)) * (Limb \div 2^(d - 2)),
                       x.exp - 2, y.lo % 2^(d - 2) # 0)
  ELSE FloatAddAligned(x.hi, x.lo, 0, y.hi \div 2^(d - 29), x.exp - 2,
                       y.hi % 2^(d - 29) # 0 \/ y.lo # 0)

\* x + y
FloatAdd(x, y) ==
  IF x = FloatZero THEN y
  ELSE IF y = FloatZero THEN x
  ELSE IF x.exp >= y.exp THEN FloatAddOrdered(x, y, x.exp - y.exp)
  ELSE FloatAddOrdered(y, x, y.exp - x.exp)

\* Sixteen times the mantissa h * Limb + l, as its two parts.
Hi16(h, l) == h * 16 + (l * 16) \div Limb

Lo16(h, l) == (l * 16) % Limb

\* rh * Limb + rl >= d * (y.hi * Limb + y.lo)
Fits(rh, rl, y, d) ==
  \/ rh > d * y.hi + (d * y.lo) \div Limb
  \/ rh = d * y.hi + (d * y.lo) \div Limb /\ rl >= (d * y.lo) % Limb

\* How often the mantissa of y goes into rh * Limb + rl, which is below
\* sixteen times that mantissa: the largest of these numbers that fits.
Digit1(rh, rl, y, d) == IF Fits(rh, rl, y, d + 1) THEN d + 1 ELSE d

Digit2(rh, rl, y, d) ==
  IF Fits(rh, rl, y, d + 2) THEN Digit1(rh, rl, y, d + 2) ELSE Digit1(rh, rl, y, d)

Digit4(rh, rl, y, d) ==
  IF Fits(rh, rl, y, d + 4) THEN Digit2(rh, rl, y, d + 4) ELSE Digit2(rh, rl, y, d)

Digit(rh, rl, y) ==
  IF Fits(rh, rl, y, 8) THEN Digit4(rh, rl, y, 8) ELSE Digit4(rh, rl, y, 0)

\* A long division of mantissas on its way: the quotient so far is
\* (qh * Limb + ql) * 2^e and rh * Limb + rl is left over.  Here the digit d
\* joins the quotient and d times the mantissa of y leaves the remainder.
Divided(qh, ql, rh, rl, y, e, d) ==
  [qh |-> qh, ql |-> ql + d,
   rh |-> rh - d * y.hi - ((d * y.lo) \div Limb)
             - (IF rl < (d * y.lo) % Limb THEN 1 ELSE 0),
   rl |-> (rl + Limb - ((d * y.lo) % Limb)) % Limb,
   e |-> e]

\* Four more bits of the quotient, unless it has its 54 to 57 bits.
DivideStep(st, y) ==
  IF st.qh >= 2^26 THEN st
  ELSE Divided(Hi16(st.qh, st.ql), Lo16(st.qh, st.ql),
               Hi16(st.rh, st.rl), Lo16(st.rh, st.rl), y, st.e - 4,
               Digit(Hi16(st.rh, st.rl), Lo16(st.rh, st.rl), y))

DivideSteps4(st, y) == DivideStep(DivideStep(DivideStep(DivideStep(st, y), y), y), y)

\* The quotient is rounded to 53 bits; a remainder makes it sticky.
Quotient(st) == FloatRound(st.qh, st.ql, st.e, st.rh # 0 \/ st.rl # 0)

\* x / y for y > 0: the first bit of the quotient, then fourteen steps of
\* four bits
FloatDiv(x, y) ==
  IF x = FloatZero THEN FloatZero
  ELSE Quotient(
         DivideStep(DivideStep(
           DivideSteps4(DivideSteps4(DivideSteps4(
             Divided(0, 0, x.hi, x.lo, y, x.exp - y.exp, Digit(x.hi, x.lo, y)),
             y), y), y), y), y))

\* The float of the literal or quotient num / den of two ints
FloatOfQuotient(num, den) == FloatDiv(FloatOfInt(num), FloatOfInt(den))

\* 1.0
FloatOne == FloatOfInt(1)

\* float(np.float32(x)): x rounded to the 24-bit mantissa of a float32 (x
\* is within the range of the normal float32 numbers)
Float32(x) ==
  IF x = FloatZero THEN x
  ELSE IF ~ \/ (x.hi % 4) * Limb + x.lo > 2^28
            \/ (x.hi % 4) * Limb + x.lo = 2^28 /\ (x.hi \div 4) % 2 = 1
  THEN Float((x.hi \div 4) * 4, 0, x.exp)
  ELSE IF x.hi \div 4 + 1 < 2^24
  THEN Float((x.hi \div 4 + 1) * 4, 0, x.exp)
  ELSE Float(2^25, 0, x.exp + 1)

\* The score written n / 10000, as a Python float and as a float32
Score(n) == FloatOfQuotient(n, 10000)

Score32(n) == Float32(Score(n))

\* The scores written ns[1] / 10000, ns[2] / 10000, ...
Scores(ns) == [i \in DOMAIN ns |-> Score(ns[i])]

Scores32(ns) == [i \in DOMAIN ns |-> Score32(ns[i])]

\* The retention threshold of _convert_to_japanese: the literal 0.001
MIN_SCORE == FloatOfQuotient(1, 1000)

\* sum(d.values()): the values are added from the left, starting from 0,
\* with one rounding at each addition.
RECURSIVE FloatSumFrom(_, _, _)
FloatSumFrom(d, i, acc) ==
  IF i > Len(d) THEN acc ELSE FloatSumFrom(d, i + 1, FloatAdd(acc, d[i].value))

DictFloatSum(d) == FloatSumFrom(d, 1, FloatZero)

(***************************************************************************)
(* YAMNetClassifier._convert_to_japanese                                   *)
(***************************************************************************)
\* Variant of MapPair that adds the scores of a category.
MapPair_Sum(japanese_categories, class_name, score) ==
  IF FloatLess(score, MIN_SCORE) THEN japanese_categories
  ELSE LET japanese_category == _find_japanese_category(class_name)
       IN  IF japanese_category # None
           THEN IF ~DictHas(japanese_categories, japanese_category)
                THEN DictSet(japanese_categories, japanese_category, score)
                ELSE DictSet(japanese_categories, japanese_category,
                             FloatAdd(DictGet(japanese_categories, japanese_category),
                                      score))
           ELSE japanese_categories

\* Variant of MapPair that also drops a score equal to the threshold.
MapPair_DropEqual(japanese_categories, class_name, score) ==
  IF ~FloatLess(MIN_SCORE, score) THEN japanese_categories
  ELSE LET japanese_category == _find_japanese_category(class_name)
       IN  IF japanese_category # None
           THEN IF ~DictHas(japanese_categories, japanese_category)
                   \/ FloatLess(DictGet(japanese_categories, japanese_category), score)
                THEN DictSet(japanese_categories, japanese_category, score)
                ELSE japanese_categories
           ELSE japanese_categories

\* One iteration of the mapping loop for the pair (class_name, score):
\* score < 0.001 skips the pair, and the dict takes float(score), which is
\* score itself.
MapPair(japanese_categories, class_name, score) ==
  IF FloatLess(score, MIN_SCORE) THEN japanese_categories
  ELSE LET japanese_category == _find_japanese_category(class_name)
       IN  IF japanese_category # None
           THEN IF ~DictHas(japanese_categories, japanese_category)
                   \/ FloatLess(DictGet(japanese_categories, japanese_category), score)
                THEN DictSet(japanese_categories, japanese_category, score)
                ELSE japanese_categories
           ELSE japanese_categories

\* The mapping loop from pair i on, starting from japanese_categories.
RECURSIVE MapPairs(_, _, _, _)
MapPairs(japanese_categories, class_names, scores, i) ==
  IF i > ZipLen(class_names, scores) THEN japanese_categories
  ELSE MapPairs(MapPair(japanese_categories, class_names[i], scores[i]),
                class_names, scores, i + 1)

\* The dict before normalisation: the mapped categories, or the fallback.
CategoriesWithFallback(class_names, scores) ==
  LET japanese_categories == MapPairs(<<>>, class_names, scores, 1)
  IN  IF japanese_categories = <<>>
      THEN DictSet(<<>>, UNKNOWN_LABEL, FloatOne)
      ELSE japanese_categories

\* Variant of NormalizeCategories that returns the scores as they are.
NormalizeCategories_Unscaled(japanese_categories) == japanese_categories

\* The dict with every value divided by total_confidence, or with the
\* uniform value when the total is not positive.
CategoriesOver(japanese_categories, total_confidence) ==
  LET num_categories == Len(japanese_categories)
  IN  IF FloatLess(FloatZero, total_confidence)
      THEN [i \in DOMAIN japanese_categories |->
              [key |-> japanese_categories[i].key,
               value |-> FloatDiv(japanese_categories[i].value, total_confidence)]]
      ELSE [i \in DOMAIN japanese_categories |->
              [key |-> japanese_categories[i].key,
               value |-> FloatDiv(FloatOne, FloatOfInt(num_categories))]]

\* Normalisation to a total of 1.0: total_confidence is
\* sum(japanese_categories.values()).
NormalizeCategories(japanese_categories) ==
  CategoriesOver(japanese_categories, DictFloatSum(japanese_categories))

\* Variant of InsertDescending that puts item before the elements of equal
\* value.
RECURSIVE InsertDescending_Unstable(_, _)
InsertDescending_Unstable(sorted, item) ==
  IF sorted = <<>> THEN <<item>>
  ELSE IF ~FloatLess(item.value, Head(sorted).value)
       THEN <<item>> \o sorted
       ELSE <<Head(sorted)>> \o InsertDescending_Unstable(Tail(sorted), item)

\* Position of item in a list already sorted by descending value: after
\* every element whose value is not smaller (the sort is stable).
RECURSIVE InsertDescending(_, _)
InsertDescending(sorted, item) ==
  IF sorted = <<>> THEN <<item>>
  ELSE IF FloatLess(Head(sorted).value, item.value)
       THEN <<item>> \o sorted
       ELSE <<Head(sorted)>> \o InsertDescending(Tail(sorted), item)

\* sorted(items, key=lambda x: x[1], reverse=True)
RECURSIVE SortedDescending(_)
SortedDescending(items) ==
  IF items = <<>> THEN <<>>
  ELSE InsertDescending(SortedDescending(SubSeq(items, 1, Len(items) - 1)),
                        items[Len(items)])

_convert_to_japanese(class_names, scores) ==
  LET sorted_results ==
        SortedDescending(NormalizeCategories(CategoriesWithFallback(class_names, scores)))
  IN  [i \in DOMAIN sorted_results |->
         [label |-> sorted_results[i].key, confidence |-> sorted_results[i].value]]

(***************************************************************************)
(* YAMNetClassifier._estimate_environment_type                             *)
(***************************************************************************)
\* keyword.lower() for every keyword of ENVIRONMENT_KEYWORDS, by position.
environment_keywords_lower ==
  [e \in DOMAIN ENVIRONMENT_KEYWORDS |->
     [k \in DOMAIN ENVIRONMENT_KEYWORDS[e][2] |-> lower(ENVIRONMENT_KEYWORDS[e][2][k])]]

\* The inner loop `for keyword in keywords` with its break: does some
\* keyword of bucket e, lowered, occur in the lowered class name?
EnvKeywordMatch(class_lower, e) ==
  \E k \in DOMAIN environment_keywords_lower[e] :
     StrIn(environment_keywords_lower[e][k], class_lower)

\* Variant of AddClassScore that adds the score to the first matching
\* bucket only.
RECURSIVE AddClassScore_Exclusive(_, _, _, _)
AddClassScore_Exclusive(env_scores, class_lower, score, e) ==
  IF e > Len(ENVIRONMENT_KEYWORDS) THEN env_scores
  ELSE LET env_type == ENVIRONMENT_KEYWORDS[e][1]
       IN  IF EnvKeywordMatch(class_lower, e)
           THEN DictSet(env_scores, env_type,
                        FloatAdd(DictGet(env_scores, env_type), score))
           ELSE AddClassScore_Exclusive(env_scores, class_lower, score, e + 1)

\* The loop over ENVIRONMENT_KEYWORDS.items() for one class, from entry e on:
\* env_scores[env_type] += float(score), where float(score) is score itself.
RECURSIVE AddClassScore(_, _, _, _)
AddClassScore(env_scores, class_lower, score, e) ==
  IF e > Len(ENVIRONMENT_KEYWORDS) THEN env_scores
  ELSE LET env_type == ENVIRONMENT_KEYWORDS[e][1]
       IN  IF EnvKeywordMatch(class_lower, e)
           THEN AddClassScore(
                  DictSet(env_scores, env_type,
                          FloatAdd(DictGet(env_scores, env_type), score)),
                  class_lower, score, e + 1)
           ELSE AddClassScore(env_scores, class_lower, score, e + 1)

\* Variant of AccumulateEnvScores that passes over the scores below the
\* threshold of the category mapping.
RECURSIVE AccumulateEnvScores_Thresholded(_, _, _, _)
AccumulateEnvScores_Thresholded(env_scores, class_names, scores, i) ==
  IF i > ZipLen(class_names, scores) THEN env_scores
  ELSE AccumulateEnvScores_Thresholded(
         IF ~FloatLess(scores[i], MIN_SCORE)
         THEN AddClassScore(env_scores, lower(class_names[i]), scores[i], 1)
         ELSE env_scores,
         class_names, scores, i + 1)

\* The outer loop over zip(class_names, scores), from pair i on.
RECURSIVE AccumulateEnvScores(_, _, _, _)
AccumulateEnvScores(env_scores, class_names, scores, i) ==
  IF i > ZipLen(class_names, scores) THEN env_scores
  ELSE AccumulateEnvScores(
         AddClassScore(env_scores, lower(class_names[i]), scores[i], 1),
         class_names, scores, i + 1)

\* env_scores = {"urban": 0.0, "natural": 0.0, "indoor": 0.0, "outdoor": 0.0}
ZeroEnvScores == [i \in DOMAIN ENV_TYPES |-> [key |-> ENV_TYPES[i], value |-> FloatZero]]

\* Variant of NormalizeEnvScores without the branch for a zero total.
NormalizeEnvScores_NoUniform(env_scores) ==
  IF FloatLess(FloatZero, DictFloatSum(env_scores))
  THEN [i \in DOMAIN env_scores |->
          [key |-> env_scores[i].key,
           value |-> FloatDiv(env_scores[i].value, DictFloatSum(env_scores))]]
  ELSE env_scores

\* The dict with every value divided by total_score, or with the uniform
\* value when the total is not positive.
EnvScoresOver(env_scores, total_score) ==
  LET num_env_types == Len(env_scores)
  IN  IF FloatLess(FloatZero, total_score)
      THEN [i \in DOMAIN env_scores |->
              [key |-> env_scores[i].key,
               value |-> FloatDiv(env_scores[i].value, total_score)]]
      ELSE [i \in DOMAIN env_scores |->
              [key |-> env_scores[i].key,
               value |-> FloatDiv(FloatOne, FloatOfInt(num_env_types))]]

\* Normalisation of the four bucket sums: total_score is
\* sum(env_scores.values()).
NormalizeEnvScores(env_scores) == EnvScoresOver(env_scores, DictFloatSum(env_scores))

\* Variant of MaxByValue that keeps the last item with the largest value.
RECURSIVE MaxByValue_Last(_, _, _)
MaxByValue_Last(items, best, i) ==
  IF i > Len(items) THEN best
  ELSE IF ~FloatLess(items[i].value, best.value)
       THEN MaxByValue_Last(items, items[i], i + 1)
       ELSE MaxByValue_Last(items, best, i + 1)

\* max(items, key=lambda x: x[1]): the first item with the largest value.
RECURSIVE MaxByValue(_, _, _)
MaxByValue(items, best, i) ==
  IF i > Len(items) THEN best
  ELSE IF FloatLess(best.value, items[i].value)
       THEN MaxByValue(items, items[i], i + 1)
       ELSE MaxByValue(items, best, i + 1)

_estimate_environment_type(class_names, scores) ==
  LET env_scores ==
        NormalizeEnvScores(AccumulateEnvScores(ZeroEnvScores, class_names, scores, 1))
  IN  [env_scores |-> env_scores,
       primary_env |-> MaxByValue(env_scores, env_scores[1], 2).key]

(***************************************************************************)
(* AudioAnalyzer._generate_environment_description.  The Japanese texts    *)
(* are written as English glosses.                                         *)
(***************************************************************************)
env_descriptions ==
  << <<"urban", "urban environment: traffic and man-made sounds dominate">>,
     <<"natural", "natural environment: birdsong, wind and other natural sounds">>,
     <<"indoor", "indoor environment: voices and indoor activity">>,
     <<"outdoor", "outdoor environment: recorded in an open acoustic space">> >>

\* env_descriptions.get(primary_env, f"{primary_env} environment")
BaseDescription(primary_env) ==
  LET hits == {i \in DOMAIN env_descriptions : env_descriptions[i][1] = primary_env}
  IN  IF hits = {} THEN primary_env \o " environment"
      ELSE env_descriptions[CHOOSE i \in hits : TRUE][2]

\* The literal 0.2
PointTwo == FloatOfQuotient(2, 10)

\* Variant of Significant that takes 0.2 itself too.
Significant_Inclusive(score) == ~FloatLess(score, PointTwo)

\* score > 0.2
Significant(score) == FloatLess(PointTwo, score)

\* [env for env, score in env_scores.items()
\*      if env != primary_env and score > 0.2], from item i on.
RECURSIVE SignificantOthers(_, _, _)
SignificantOthers(primary_env, env_scores, i) ==
  IF i > Len(env_scores) THEN <<>>
  ELSE (IF env_scores[i].key # primary_env /\ Significant(env_scores[i].value)
        THEN <<env_scores[i].key>> ELSE <<>>)
       \o SignificantOthers(primary_env, env_scores, i + 1)

\* sep.join(items)
RECURSIVE Join(_, _)
Join(items, sep) ==
  IF Len(items) = 0 THEN ""
  ELSE IF Len(items) = 1 THEN items[1]
  ELSE items[1] \o sep \o Join(Tail(items), sep)

_generate_environment_description(primary_env, env_scores) ==
  LET base_description == BaseDescription(primary_env)
      significant_others == SignificantOthers(primary_env, env_scores, 1)
  IN  IF Len(significant_others) > 0
      THEN base_description \o " (with elements of "
             \o Join(significant_others, ", ") \o ")"
      ELSE base_description

(***************************************************************************)
(* AudioProcessor: class attributes and the values it handles.             *)
(***************************************************************************)
TARGET_SAMPLE_RATE == 16000

\* MAX_DURATION = 30.0, in seconds.
MAX_DURATION == 30

\* MIN_DURATION = 0.1: a duration is below it when ten times the duration
\* is below MIN_DURATION_TENTHS.
MIN_DURATION_TENTHS == 1

SUPPORTED_FORMATS == {".wav", ".mp3", ".webm", ".m4a", ".flac", ".ogg"}

\* An exception: its class and str(e).
Exc(type, msg) == [type |-> type, msg |-> msg]

\* No exception.
NoExc == Exc("None", "")

\* raise RuntimeError(f"Audio processing failed: {e}")
ProcessingFailed(e) == Exc("RuntimeError", "Audio processing failed: " \o e.msg)

(***************************************************************************)
(* bytes and pathlib.Path.  A bytes object is a sequence of byte values.   *)
(***************************************************************************)
\* bytes.lower() on one byte
LowerByte(b) == IF 65 <= b /\ b <= 90 THEN b + 32 ELSE b

BytesLower(bs) == [i \in DOMAIN bs |-> LowerByte(bs[i])]

\* bytes.startswith(prefix)
BytesStartWith(bs, prefix) ==
  Len(prefix) <= Len(bs) /\ SubSeq(bs, 1, Len(prefix)) = prefix

\* `sub in bs`
BytesIn(sub, bs) ==
  \E i \in 0..(Len(bs) - Len(sub)) : SubSeq(bs, i + 1, i + Len(sub)) = sub

\* bs[:k]
FirstBytes(bs, k) == SubSeq(bs, 1, IF Len(bs) < k THEN Len(bs) ELSE k)

\* b'RIFF', b'\xff\xfb', b'\xff\xf3', b'webm'
RIFF == <<82, 73, 70, 70>>

MP3_FB == <<255, 251>>

MP3_F3 == <<255, 243>>

WEBM == <<119, 101, 98, 109>>

\* str.rfind(c) + 1: the position of the last c in s, 0 when there is none.
RFind(s, c) ==
  LET hits == {i \in 1..Len(s) : SubSeq(s, i, i) = c}
  IN  IF hits = {} THEN 0 ELSE CHOOSE i \in hits : \A j \in hits : j <= i

\* The components of Path(s) after the root: s split at the separators,
\* without the empty pieces and the current-directory pieces; cur is the
\* piece being read.
RECURSIVE PathParts(_, _)
PathParts(s, cur) ==
  LET piece == IF cur \in {"", "."} THEN <<>> ELSE <<cur>>
  IN  IF s = "" THEN piece
      ELSE IF SubSeq(s, 1, 1) = "/"
           THEN piece \o PathParts(SubSeq(s, 2, Len(s)), "")
      ELSE PathParts(SubSeq(s, 2, Len(s)), cur \o SubSeq(s, 1, 1))

\* Path(path).root: exactly two leading separators are kept, one or more
\* than two give one.
PathRoot(path) ==
  IF StartsWith(path, "//") /\ ~StartsWith(path, "///") THEN "//"
  ELSE IF StartsWith(path, "/") THEN "/"
  ELSE ""

\* sep.join(parts)
RECURSIVE JoinParts(_)
JoinParts(parts) ==
  IF parts = <<>> THEN ""
  ELSE IF Len(parts) = 1 THEN parts[1]
  ELSE parts[1] \o "/" \o JoinParts(Tail(parts))

\* str(Path(path))
PathStr(path) ==
  LET parts == PathParts(path, "")
  IN  IF parts = <<>> /\ PathRoot(path) = "" THEN "."
      ELSE PathRoot(path) \o JoinParts(parts)

\* Path(path).name: the last component, '' when there is none.
PathName(path) ==
  LET parts == PathParts(path, "")
  IN  IF parts = <<>> THEN "" ELSE parts[Len(parts)]

\* Path(path).suffix: from the last dot of the name, when that dot is
\* neither its first nor its last character.
PathSuffix(path) ==
  LET name == PathName(path)
      i == RFind(name, ".")
  IN  IF 1 < i /\ i < Len(name) THEN SubSeq(name, i, Len(name)) ELSE ""

\* str(Path(path).with_suffix(suffix)), for a path with a name
WithSuffix(path, suffix) ==
  LET str == PathStr(path)
  IN  SubSeq(str, 1, Len(str) - Len(PathSuffix(path))) \o suffix

_determine_file_extension(filename_hint, audio_bytes) ==
  IF /\ filename_hint # None
     /\ filename_hint # ""
     /\ lower(PathSuffix(filename_hint)) \in SUPPORTED_FORMATS
  THEN lower(PathSuffix(filename_hint))
  ELSE IF BytesStartWith(audio_bytes, RIFF) THEN ".wav"
  ELSE IF BytesStartWith(audio_bytes, MP3_FB) \/ BytesStartWith(audio_bytes, MP3_F3)
       THEN ".mp3"
  ELSE IF BytesIn(WEBM, BytesLower(FirstBytes(audio_bytes, 100))) THEN ".webm"
  ELSE ".wav"

\* The name tempfile.NamedTemporaryFile(suffix=...) gives the spooled file.
TempName(suffix) == "/tmp/tmpk3x9q" \o suffix

(***************************************************************************)
(* Waveforms.  A waveform (a 1-dimensional numpy array) is kept run-length *)
(* encoded: a sequence of runs of `count` > 0 equal samples.  A finite     *)
(* sample is an integer counting quarters (value 4 is 1.0); NaN, +Inf and  *)
(* -Inf are kinds of their own.                                            *)
(***************************************************************************)
SAMPLE_SCALE == 4

Finite(v, c) == [kind |-> "finite", value |-> v, count |-> c]

NonFinite(k, c) == [kind |-> k, value |-> 0, count |-> c]

\* len(waveform)
RECURSIVE WaveLen(_)
WaveLen(w) == IF w = <<>> THEN 0 ELSE Head(w).count + WaveLen(Tail(w))

\* Variant of Take that keeps the last k samples.
RECURSIVE Take_Last(_, _)
Take_Last(w, k) ==
  IF w = <<>> \/ k <= 0 THEN <<>>
  ELSE LET last == w[Len(w)]
           front == SubSeq(w, 1, Len(w) - 1)
       IN  IF last.count <= k
           THEN Take_Last(front, k - last.count) \o <<last>>
           ELSE <<[last EXCEPT !.count = k]>>

\* waveform[:k]
RECURSIVE Take(_, _)
Take(w, k) ==
  IF w = <<>> \/ k <= 0 THEN <<>>
  ELSE IF Head(w).count <= k
       THEN <<Head(w)>> \o Take(Tail(w), k - Head(w).count)
       ELSE <<[Head(w) EXCEPT !.count = k]>>

\* np.all(waveform == 0)
AllZero(w) == \A i \in DOMAIN w : w[i].kind = "finite" /\ w[i].value = 0

\* np.any(np.isnan(waveform)) or np.any(np.isinf(waveform))
AnyNanOrInf(w) ==
  \/ \E i \in DOMAIN w : w[i].kind = "nan"
  \/ \E i \in DOMAIN w : w[i].kind \in {"inf", "-inf"}

\* np.max(np.abs(waveform)) > 0, for a waveform of finite samples
MaxAbsPositive(w) == \E i \in DOMAIN w : w[i].value # 0

\* np.sum(waveform**2), in squared sample units
RECURSIVE SumSquares(_)
SumSquares(w) ==
  IF w = <<>> THEN 0
  ELSE Head(w).count * Head(w).value * Head(w).value + SumSquares(Tail(w))

(***************************************************************************)
(* AudioProcessor._validate_audio_data                                     *)
(***************************************************************************)
\* The decimal digits of a natural number.
RECURSIVE IntStr(_)
IntStr(n) ==
  IF n < 10 THEN SubSeq("0123456789", n + 1, n + 1)
  ELSE IntStr(n \div 10) \o SubSeq("0123456789", (n % 10) + 1, (n % 10) + 1)

\* The k with 2^k <= num/den < 2^(k+1), for num > 0.
RECURSIVE FloorLog2(_, _)
FloorLog2(num, den) ==
  IF num >= 2 * den THEN 1 + FloorLog2(num \div 2, den)
  ELSE IF num >= den THEN 0
  ELSE FloorLog2(2 * num, den) - 1

\* (a * b) % m without a product above 2 * m
RECURSIVE MulMod(_, _, _)
MulMod(a, b, m) ==
  IF b = 0 THEN 0
  ELSE LET half == MulMod(a, b \div 2, m)
           twice == (half + half) % m
       IN  IF b % 2 = 1 THEN (twice + a) % m ELSE twice

\* (2^e) % m
RECURSIVE Pow2Mod(_, _)
Pow2Mod(e, m) ==
  IF e = 0 THEN 1 % m
  ELSE LET root == Pow2Mod(e \div 2, m)
           square == MulMod(root, root, m)
       IN  IF e % 2 = 1 THEN (square + square) % m ELSE square

\* The double num / den of Python against the quotient itself: -1 when the
\* double is the smaller, 1 when it is the greater, 0 when the quotient is a
\* double.  The double is the quotient rounded to 53 significant bits, to
\* the nearest; what the 53 bits leave out is the remainder of
\* num * 2^e by den, with 2^52 <= num * 2^e / den < 2^53.  A remainder of
\* exactly half of den needs a numerator of 54 bits and does not occur.
DoubleError(num, den) ==
  LET e == 52 - FloorLog2(num, den)
      r == MulMod(num % den, Pow2Mod(e, den), den)
  IN  IF r = 0 THEN 0 ELSE IF 2 * r < den THEN -1 ELSE 1

\* The hundredths f"{x:.2f}" prints for the double x = num / den: the
\* decimal expansion of the double, rounded to the nearest hundredth.  When
\* the quotient lies halfway between two hundredths the double decides: it is
\* below or above the quotient, or it is the quotient and the even
\* hundredth is taken.
Hundredths(num, den) ==
  LET h == (100 * num) \div den
      rest == 100 * num - h * den
  IN  IF 2 * rest < den THEN h
      ELSE IF 2 * rest > den THEN h + 1
      ELSE IF DoubleError(num, den) < 0 THEN h
      ELSE IF DoubleError(num, den) > 0 THEN h + 1
      ELSE IF h % 2 = 0 THEN h ELSE h + 1

\* f"{duration:.2f}" of metadata.duration, the double len(waveform) /
\* original_sr, kept as the fraction duration.num / duration.den.
Format2f(duration) ==
  LET h == Hundredths(duration.num, duration.den)
  IN  IntStr(h \div 100) \o "." \o IntStr((h % 100) \div 10) \o IntStr(h % 10)

\* metadata.duration < self.MIN_DURATION
BelowMinDuration(duration) == 10 * duration.num < MIN_DURATION_TENTHS * duration.den

\* Variant of _validate_audio_data that looks for silence before the length.
_validate_audio_data_SilenceFirst(waveform, duration) ==
  IF WaveLen(waveform) = 0 THEN Exc("ValueError", "Empty audio waveform")
  ELSE IF AllZero(waveform)
       THEN Exc("ValueError", "Audio waveform contains only silence")
  ELSE IF BelowMinDuration(duration)
       THEN Exc("ValueError", "Audio too short: " \o Format2f(duration) \o "s < 0.1s")
  ELSE IF AnyNanOrInf(waveform)
       THEN Exc("ValueError", "Audio waveform contains invalid values (NaN or Inf)")
  ELSE NoExc

\* The ValueError the validation raises, NoExc when it returns; duration is
\* metadata.duration = len(waveform) / original_sr, kept as a fraction.  A
\* duration above MAX_DURATION only logs a warning.
_validate_audio_data(waveform, duration) ==
  IF WaveLen(waveform) = 0 THEN Exc("ValueError", "Empty audio waveform")
  ELSE IF BelowMinDuration(duration)
       THEN Exc("ValueError", "Audio too short: " \o Format2f(duration) \o "s < 0.1s")
  ELSE IF AllZero(waveform)
       THEN Exc("ValueError", "Audio waveform contains only silence")
  ELSE IF AnyNanOrInf(waveform)
       THEN Exc("ValueError", "Audio waveform contains invalid values (NaN or Inf)")
  ELSE NoExc

(***************************************************************************)
(* AudioProcessor._preprocess_for_yamnet                                   *)
(***************************************************************************)
\* max_samples = int(self.MAX_DURATION * self.TARGET_SAMPLE_RATE)
max_samples == MAX_DURATION * TARGET_SAMPLE_RATE

\* Variant of NeedsResample that resamples only higher rates.
NeedsResample_Above(original_sr) == original_sr > TARGET_SAMPLE_RATE

\* original_sr != self.TARGET_SAMPLE_RATE
NeedsResample(original_sr) == original_sr # TARGET_SAMPLE_RATE

\* len() of what librosa.resample returns for n samples:
\* ceil(n * target_sr / orig_sr), the ratio taken in lowest terms.
ResampledLength(n, original_sr) ==
  LET g == GCD(TARGET_SAMPLE_RATE, original_sr)
      p == TARGET_SAMPLE_RATE \div g
      q == original_sr \div g
  IN  (n * p + q - 1) \div q

\* The sign of a sample.
Sign(v) == IF v > 0 THEN 1 ELSE IF v < 0 THEN -1 ELSE 0

\* A sample of the returned array by its sign and the exact square of its
\* magnitude.
Amp(sign, square) == [sign |-> sign, square |-> square]

\* waveform / (rms * 10) for the sample v of a waveform of n samples whose
\* squares sum to ss: rms = sqrt(ss / n), so the square of the quotient is
\* v*v*n / (100*ss).
Scaled(v, n, ss) == Amp(Sign(v), Frac(v * v * n, 100 * ss))

\* Variant of Clip that leaves the sample as it is.
Clip_None(x) == x

\* np.clip(x, -1.0, 1.0)
Clip(x) == IF FracLess(Frac(1, 1), x.square) THEN Amp(x.sign, Frac(1, 1)) ELSE x

\* A sample that was not rescaled, as a float.
AsFloat(v) == Amp(Sign(v), Frac(v * v, SAMPLE_SCALE * SAMPLE_SCALE))

\* len(waveform) > max_samples
TruncateNeeded(w) == WaveLen(w) > max_samples

\* The local waveform after the resampling step; resampler_output is what
\* librosa.resample returns when it is called.
AfterResample(waveform, original_sr, resampler_output) ==
  IF NeedsResample(original_sr) THEN resampler_output ELSE waveform

\* The local waveform after the truncation step.
AfterTruncate(w) == IF TruncateNeeded(w) THEN Take(w, max_samples) ELSE w

\* np.max(np.abs(waveform)) > 0 and then rms > 0
Normalizable(w) == IF MaxAbsPositive(w) THEN SumSquares(w) > 0 ELSE FALSE

\* The returned array: rescaled and clipped when the waveform can be
\* normalised, and converted to float32 in either case.
AfterNormalize(w) ==
  LET n == WaveLen(w)
      ss == SumSquares(w)
  IN  [i \in DOMAIN w |->
         [sample |-> IF Normalizable(w)
                     THEN Clip(Scaled(w[i].value, n, ss))
                     ELSE AsFloat(w[i].value),
          count |-> w[i].count]]

\* The returned pair (waveform, processing_info).
_preprocess_for_yamnet(waveform, original_sr, resampler_output) ==
  LET w1 == AfterResample(waveform, original_sr, resampler_output)
      w2 == AfterTruncate(w1)
  IN  [waveform |-> AfterNormalize(w2),
       processing_info |->
         [original_sample_rate |-> original_sr,
          target_sample_rate |-> TARGET_SAMPLE_RATE,
          resampled |-> NeedsResample(original_sr),
          normalized |-> Normalizable(w2),
          truncated |-> TruncateNeeded(w1)]]

(***************************************************************************)
(* YAMNetClassifier: the object and its methods initialize, classify_audio *)
(* and cleanup.  The loaded model and the loaded class-name list are       *)
(* objects told apart by the number of the hub.load call that made them;   *)
(* 0 stands for None.                                                      *)
(***************************************************************************)
\* YAMNetClassifier.__init__
NewClassifier == [model |-> 0, class_names |-> 0, _initialized |-> FALSE]

\* raise RuntimeError(f"YAMNet initialization failed: {e}")
InitializationFailed(e) ==
  Exc("RuntimeError", "YAMNet initialization failed: " \o e.msg)

\* raise RuntimeError(f"Classification failed: {e}")
ClassificationFailed(e) == Exc("RuntimeError", "Classification failed: " \o e.msg)

\* Variant of ModelReady that looks at the model only.
ModelReady_ModelOnly(c) == c.model # 0

\* The negation of `not self._initialized or self.model is None`.
ModelReady(c) == c._initialized /\ c.model # 0

\* Variant of SliceTo that keeps the whole sequence.
SliceTo_Whole(seq, k) == seq

\* seq[:k] of Python
SliceTo(seq, k) ==
  IF k >= 0 THEN SubSeq(seq, 1, IF k < Len(seq) THEN k ELSE Len(seq))
  ELSE SubSeq(seq, 1, IF Len(seq) + k > 0 THEN Len(seq) + k ELSE 0)

\* What classify_audio returns.
NoClassification ==
  [japanese_results |-> <<>>, env_scores |-> <<>>, primary_env |-> None]

\* return japanese_results, env_scores, primary_env
Classification(results, env) ==
  [japanese_results |-> results, env_scores |-> env.env_scores,
   primary_env |-> env.primary_env]

\* seq[-k:] of Python, for 0 <= k <= len(seq); seq[-0:] is all of seq
SliceFromEnd(seq, k) ==
  IF k = 0 THEN seq ELSE SubSeq(seq, Len(seq) - k + 1, Len(seq))

\* seq[::-1]
Reversed(seq) == [i \in 1..Len(seq) |-> seq[Len(seq) + 1 - i]]

\* extended_top_k = min(20, len(mean_scores))
extended_top_k(mean_scores) == IF 20 < Len(mean_scores) THEN 20 ELSE Len(mean_scores)

\* What calling the model gives: the exception it raises, or (exc = NoExc)
\* frame scores whose mean over the frames is mean_scores, one per entry of
\* class_names; argsort is what np.argsort(mean_scores) returns for them,
\* the class numbers by rising mean score, equal scores in either order.
NoRun == [exc |-> NoExc, class_names |-> <<>>, mean_scores |-> <<>>, argsort |-> <<>>]

\* top_indices[:top_k] with
\* top_indices = np.argsort(mean_scores)[-extended_top_k:][::-1]
FinalTopIndices(run, top_k) ==
  SliceTo(Reversed(SliceFromEnd(run.argsort, extended_top_k(run.mean_scores))), top_k)

\* [self.class_names[i] for i in indices]
ClassesAt(run, indices) == [i \in DOMAIN indices |-> run.class_names[indices[i]]]

\* mean_scores[indices]: the means of a run are float32 numbers, written in
\* ten-thousandths
ScoresAt(run, indices) ==
  [i \in DOMAIN indices |-> Score32(run.mean_scores[indices[i]])]

\* classify_audio from the call of the model on, with the classes and
\* scores handed to the category mapping and to the environment scoring.
Classified(final_top_classes, final_top_scores) ==
  Classification(_convert_to_japanese(final_top_classes, final_top_scores),
                 _estimate_environment_type(final_top_classes, final_top_scores))

\* len(audio_waveform) / sample_rate of a Python int by a Python int
DivisionByZero == Exc("ZeroDivisionError", "division by zero")

\* np.max of an array without elements
ZeroSizeArray ==
  Exc("ValueError",
      "zero-size array to reduction operation maximum which has no identity")

\* The exception the statistics of the waveform raise inside the try block,
\* before the model is called: the duration first, the largest amplitude
\* next.  NoExc when they are computed.
AudioStatsError(samples, sample_rate) ==
  IF sample_rate = 0 THEN DivisionByZero
  ELSE IF samples = 0 THEN ZeroSizeArray
  ELSE NoExc

\* classify_audio on the classifier c.  ndim is audio_waveform.ndim, samples
\* is len(audio_waveform); run is what calling the model does.  The result
\* tells the exception raised, the exception raised first (cause), whether
\* the model was called, final_top_indices, and the returned triple.  A
\* sample_rate other than 16000 is logged as a warning, no more.
classify_audio(c, ndim, samples, sample_rate, top_k, run) ==
  IF ~ModelReady(c)
  THEN [exc |-> Exc("RuntimeError", "YAMNet model not initialized"),
        cause |-> Exc("RuntimeError", "YAMNet model not initialized"),
        model_called |-> FALSE, final_top_indices |-> <<>>,
        returned |-> NoClassification]
  ELSE IF ndim # 1
  THEN [exc |-> Exc("ValueError", "Audio waveform must be 1-dimensional"),
        cause |-> Exc("ValueError", "Audio waveform must be 1-dimensional"),
        model_called |-> FALSE, final_top_indices |-> <<>>,
        returned |-> NoClassification]
  ELSE IF AudioStatsError(samples, sample_rate) # NoExc
  THEN [exc |-> ClassificationFailed(AudioStatsError(samples, sample_rate)),
        cause |-> AudioStatsError(samples, sample_rate),
        model_called |-> FALSE, final_top_indices |-> <<>>,
        returned |-> NoClassification]
  ELSE IF run.exc # NoExc
  THEN [exc |-> ClassificationFailed(run.exc),
        cause |-> run.exc,
        model_called |-> TRUE, final_top_indices |-> <<>>,
        returned |-> NoClassification]
  ELSE [exc |-> NoExc,
        cause |-> NoExc,
        model_called |-> TRUE,
        final_top_indices |-> FinalTopIndices(run, top_k),
        returned |-> Classified(ClassesAt(run, FinalTopIndices(run, top_k)),
                                ScoresAt(run, FinalTopIndices(run, top_k)))]

\* YAMNetClassifier.cleanup
CleanedUp(c) == [c EXCEPT !.model = 0, !.class_names = 0, !._initialized = FALSE]

(***************************************************************************)
(* YAMNetManager, AudioAnalyzer and the routes: the pure parts.            *)
(***************************************************************************)
\* YAMNetManager.__init__; classifier tells whether self.classifier holds a
\* YAMNetClassifier (the one of the variable yamnet) or None.
NewManager == [classifier |-> FALSE, _initialized |-> FALSE]

\* raise RuntimeError(f"YAMNetManager initialization failed: {e}")
ManagerInitializationFailed(e) ==
  Exc("RuntimeError", "YAMNetManager initialization failed: " \o e.msg)

\* Variant of ManagerReady that finds every manager ready.
ManagerReady_Always(m) == TRUE

\* The negation of `not self._initialized or self.classifier is None` of
\* get_classifier.
ManagerReady(m) == m._initialized /\ m.classifier

ManagerNotInitialized == Exc("RuntimeError", "YAMNetManager not initialized")

\* Variant of ManagerCleanedUp that leaves the flag as it is.
ManagerCleanedUp_FlagKept(m) == m

\* YAMNetManager.cleanup, on the manager
ManagerCleanedUp(m) == [m EXCEPT !._initialized = FALSE]

\* self._analyzer_stats of AudioAnalyzer.__init__
NewStats ==
  [total_analyses |-> 0, successful_analyses |-> 0, failed_analyses |-> 0,
   total_processing_time |-> 0]

\* Variant of Incremented that stores 1.
Incremented_Overwritten(stats, key) == [stats EXCEPT ![key] = 1]

\* self._analyzer_stats[key] += 1
Incremented(stats, key) == [stats EXCEPT ![key] = @ + 1]

\* raise RuntimeError(f"YAMNet analysis failed: {e}")
YamnetAnalysisFailed(e) == Exc("RuntimeError", "YAMNet analysis failed: " \o e.msg)

\* raise RuntimeError(f"WebM to WAV conversion failed: {e}")
ConversionFailed(e) ==
  Exc("RuntimeError", "WebM to WAV conversion failed: " \o e.msg)

\* Variant of AnalysisFailed that tells the kind of the error only.
AnalysisFailed_TypeOnly(e) == Exc("RuntimeError", "Audio analysis failed: " \o e.type)

\* raise RuntimeError(f"Audio analysis failed: {e}")
AnalysisFailed(e) == Exc("RuntimeError", "Audio analysis failed: " \o e.msg)

\* raise RuntimeError(f"Failed to download audio after {max_retries + 1}
\* attempts: {e}")
DownloadFailed(retries, e) ==
  Exc("RuntimeError",
      "Failed to download audio after " \o IntStr(retries + 1) \o " attempts: " \o e.msg)

\* What the await of a coroutine raises when its task is cancelled; it is no
\* Exception, so `except Exception` lets it through.
Cancelled == Exc("CancelledError", "")

\* _perform_analysis after classify_audio ended as r tells.
Analysed(r) ==
  [exc |-> IF r.exc # NoExc THEN YamnetAnalysisFailed(r.exc) ELSE NoExc,
   cause |-> r.cause,
   model_called |-> r.model_called,
   returned |-> r.returned]

\* _perform_analysis on a ProcessedAudio of the rate sample_rate whose
\* waveform has `samples` samples: the classifier of the manager m, which is
\* c, classifies the waveform.
\* cause is the first exception raised, exc the one that leaves.
_perform_analysis(m, c, samples, sample_rate, top_k, run) ==
  IF ~ManagerReady(m)
  THEN [exc |-> YamnetAnalysisFailed(ManagerNotInitialized),
        cause |-> ManagerNotInitialized,
        model_called |-> FALSE, returned |-> NoClassification]
  ELSE Analysed(classify_audio(c, 1, samples, sample_rate, top_k, run))

\* get_analyzer_stats: the copy of the counters with the derived rates.
get_analyzer_stats(stats) ==
  [total_analyses |-> stats.total_analyses,
   successful_analyses |-> stats.successful_analyses,
   failed_analyses |-> stats.failed_analyses,
   total_processing_time |-> stats.total_processing_time,
   average_processing_time |->
     IF stats.successful_analyses > 0
     THEN Frac(stats.total_processing_time, stats.successful_analyses)
     ELSE Frac(0, 1),
   success_rate |->
     IF stats.total_analyses > 0
     THEN Frac(stats.successful_analyses, stats.total_analyses)
     ELSE Frac(0, 1)]

\* AudioAnalyzer.health_check with the manager m.
health_check(m, stats) ==
  IF ManagerReady(m)
  THEN [status |-> "healthy", error |-> "", yamnet_initialized |-> TRUE,
        audio_processor_ready |-> TRUE, statistics |-> get_analyzer_stats(stats)]
  ELSE [status |-> "unhealthy", error |-> ManagerNotInitialized.msg,
        yamnet_initialized |-> FALSE, audio_processor_ready |-> FALSE,
        statistics |-> get_analyzer_stats(stats)]

\* The status code of the route health_check for the details it got.
HealthStatusCode(details) == IF details.status # "healthy" THEN 503 ELSE 200

\* The status code the handlers `except ValueError` and `except Exception`
\* of analyze_audio_url and analyze_audio_upload answer with; the
\* HTTPException raised before the try block carries 400.
RouteStatus(e) ==
  IF e.type = "ValueError" \/ e.type = "HTTPException" THEN 400 ELSE 500

\* MAX_FILE_SIZE of analyze_audio_upload
MAX_FILE_SIZE == 10485760

\* The check of the content type in analyze_audio_upload; "" is no content
\* type.
ContentTypeRefused(content_type) ==
  /\ content_type # ""
  /\ ~StrIn("audio/", lower(content_type))
  /\ ~StrIn("video/", lower(content_type))

\* The checks analyze_audio_upload makes before it reads the file: the
\* exception raised, NoExc when the upload goes on.
UploadRefused(top_k, content_type) ==
  IF ~(1 <= top_k /\ top_k <= 20)
  THEN Exc("HTTPException", "top_k must be between 1 and 20")
  ELSE IF ContentTypeRefused(content_type)
  THEN Exc("ValueError", "Unsupported file type: " \o content_type)
  ELSE NoExc

\* The checks analyze_audio_upload makes on the bytes it has read, before
\* it calls the analyzer.
SizeRefused(size) ==
  IF size > MAX_FILE_SIZE
  THEN Exc("ValueError", "File too large: " \o IntStr(size) \o " bytes (max: "
                          \o IntStr(MAX_FILE_SIZE) \o ")")
  ELSE IF size = 0
  THEN Exc("ValueError", "Empty file uploaded")
  ELSE NoExc

(***************************************************************************)
(* State of one use of the category mapper.                                *)
(*   class_names, scores  the arguments given to the mapper                *)
(*   mpc                  position of the caller                           *)
(*   japanese_categories  the dict of _convert_to_japanese just before     *)
(*                        normalisation                                    *)
(*   japanese_results     the list returned by _convert_to_japanese        *)
(*   other_call           the invocation made for another classification   *)
(*                        between the two on (class_names, scores): its    *)
(*                        arguments, its dict just before normalisation    *)
(*                        and the list it returned                         *)
(*   previous_results     the list the first invocation on (class_names,   *)
(*                        scores) returned                                 *)
(*   env_scores, primary_env  the pair returned by                         *)
(*                        _estimate_environment_type                       *)
(*   description          the text _generate_environment_description made  *)
(*                        of that pair                                     *)
(***************************************************************************)
VARIABLES class_names, scores, mpc, japanese_categories, japanese_results,
          other_call, previous_results, env_scores, primary_env, description

mapper_vars == <<class_names, scores, mpc, japanese_categories, japanese_results,
                 other_call, previous_results, env_scores, primary_env, description>>

\* No other classification has been made.
NoOtherCall ==
  [class_names |-> <<>>, scores |-> <<>>, japanese_categories |-> <<>>,
   japanese_results |-> <<>>]

\* Class names and scores the argument lists are drawn from.
ClassNames == {"Car", "Motor vehicle (road)", "Bird", "Rain", "Speech", "Gasp"}

\* 0.0, 0.0005, 0.001, 0.4 and 0.6
ScoreValues == {Score(n) : n \in {0, 5, 10, 4000, 6000}}

\* Every pair of equally long lists of at most MaxPairs entries.
GeneralInputs ==
  UNION {{[class_names |-> n, scores |-> s] :
            n \in [1..len -> ClassNames], s \in [1..len -> ScoreValues]} :
         len \in 0..MaxPairs}

\* One-class argument lists, for category resolution.
SingleClassNames ==
  {"car", "", "Applause", "Screaming", "Railroad crossing",
   "Roaring cats (lions, tigers)", "Motorboat, speedboat", "Crow",
   "Machine gun", "Bell", "Insect", "Aircraft", "Fire truck", "Song",
   "Traffic noise, roadway noise", "Telephone bell ringing"}

\* Longer argument lists: the scenarios of the specification, lists as
\* classify_audio builds them (distinct classes, descending scores), lists
\* whose bucket sums differ by a rounding only, and lists of float32 scores.
ScenarioInputs ==
  {[class_names |-> <<n>>, scores |-> Scores(<<5000>>)] : n \in SingleClassNames}
  \cup
  {[class_names |-> <<"Car", "Motor vehicle (road)">>, scores |-> Scores(<<3000, 5000>>)],
   [class_names |-> <<"Car", "Bird", "Speech">>, scores |-> Scores(<<4000, 4000, 4000>>)],
   [class_names |-> <<"Rain", "Car", "Bird", "Speech">>,
    scores |-> Scores(<<2000, 4000, 2000, 4000>>)],
   [class_names |-> <<"Car", "Insect", "Speech", "Aircraft">>,
    scores |-> Scores(<<2000, 2000, 2000, 2000>>)],
   [class_names |-> <<"Speech", "Screaming", "Roaring cats (lions, tigers)",
                      "Railroad crossing", "Gasp">>,
    scores |-> Scores(<<5000, 2000, 2000, 1000, 9>>)],
   [class_names |-> <<"Gasp", "Insect", "Aircraft">>, scores |-> Scores(<<6000, 3000, 1000>>)],
   [class_names |-> <<"Railroad car, train wagon", "Speech">>, scores |-> Scores(<<3000, 5>>)],
   [class_names |-> <<"Car", "Speech">>, scores |-> Scores(<<4000, 1000>>)],
   [class_names |-> <<"Car", "Speech">>, scores |-> Scores(<<3999, 1000>>)],
   [class_names |-> <<"Car", "Insect", "Animal">>, scores |-> Scores(<<3000, 1000, 2000>>)],
   [class_names |-> <<"Insect", "Animal", "Car">>, scores |-> Scores(<<1000, 2000, 3000>>)],
   [class_names |-> <<"Car", "Bird">>, scores |-> Scores(<<3000, 1000>>)],
   [class_names |-> <<"Car", "Truck", "Insect">>, scores |-> Scores32(<<1000, 2000, 3000>>)],
   [class_names |-> <<"Bird", "Speech", "Car">>, scores |-> Scores32(<<5, 6000, 3000>>)]}

\* Argument lists of the classification made in between: one category, and
\* two categories in ascending order of score.
OtherInputs ==
  {[class_names |-> <<"Bird">>, scores |-> Scores(<<6000>>)],
   [class_names |-> <<"Speech", "Car">>, scores |-> Scores(<<4000, 6000>>)]}

(***************************************************************************)
(* State of one call of AudioProcessor.process_audio_from_url.             *)
(*   audio_url, max_retries  the arguments                                 *)
(*   fpc          position in the function: "start" before its first      *)
(*                step, "pending" while it rests in `await                 *)
(*                self.client.get` with the GET issued and not answered,   *)
(*                "returned" and "raised" after the call ended, "idle"     *)
(*                when no call is made                                     *)
(*   attempt      the loop variable                                        *)
(*   fetches      number of self.client.get calls issued                   *)
(*   fetch_errors the httpx.HTTPError of each failed attempt, in order     *)
(*   outcome      what the call returned or raised                         *)
(***************************************************************************)
VARIABLES audio_url, max_retries, fpc, attempt, fetches, fetch_errors, outcome

fetch_vars == <<audio_url, max_retries, fpc, attempt, fetches, fetch_errors, outcome>>

\* One call of AudioProcessor.process_audio_from_bytes: its arguments, its
\* position, its locals and the files it has put on disk.
VARIABLES proc

\* The fields of proc before any call of process_audio_from_bytes.
NoResult ==
  [waveform |-> <<>>, sample_rate |-> 0,
   original_metadata |-> [duration |-> Frac(0, 1), sample_rate |-> 0,
                          format |-> "", file_size |-> 0],
   processing_info |-> [original_sample_rate |-> 0, target_sample_rate |-> 0,
                        resampled |-> FALSE, normalized |-> FALSE,
                        truncated |-> FALSE]]

\*   pc            position of the call
\*   audio_bytes, filename_hint   the arguments
\*   files         the files the call has put on disk and not removed
\*   temp_file     temp_file.name, None before the file is made and in a
\*                 call of process_audio_from_file with a path of the caller
\*   on_disk       whether the path given to process_audio_from_file exists
\*   file_path     the local file_path of process_audio_from_file
\*   st_size       the size in bytes of the file at file_path
\*   waveform, original_sr   what librosa.load returned
\*   duration      original_metadata.duration
\*   validation    the exception _validate_audio_data raised, if any
\*   resampled_waveform, truncated_waveform   the local waveform of
\*                 _preprocess_for_yamnet after its resampling step and
\*                 after its truncation step
\*   result        the returned ProcessedAudio
\*   raised        the exceptions of a failing call, the first raised
\*                 first, the one leaving process_audio_from_bytes last
ProcIdle ==
  [pc |-> "idle", audio_bytes |-> <<>>, filename_hint |-> None, files |-> {},
   on_disk |-> FALSE, temp_file |-> None, file_path |-> None, st_size |-> 0,
   waveform |-> <<>>,
   original_sr |-> 0, duration |-> Frac(0, 1), validation |-> NoExc,
   resampled_waveform |-> <<>>, truncated_waveform |-> <<>>,
   result |-> NoResult, raised |-> <<>>]

\* The classifier object, and the caller of its methods:
\*   caller.pc      idle between two calls, else the await of initialize
\*                  that is pending (hub_load, load_class_names)
\*   caller.loads   the number of hub.load calls so far
\*   caller.inferences   the number of calls of the model so far
\*   caller.history the methods called to completion, in order
\*   caller.last    the call completed last: its method and arguments, the
\*                  run of the model and final_top_indices if it returned, the
\*                  classifier, loads and inferences when it was made, the
\*                  exception it raised and what it returned
VARIABLES yamnet, caller

NoCall ==
  [op |-> "none", sample_rate |-> 0, ndim |-> 0, samples |-> 0, top_k |-> 0,
   before |-> NewClassifier, loads_before |-> 0, inferences_before |-> 0,
   run |-> NoRun, final_top_indices |-> <<>>,
   exc |-> NoExc, returned |-> NoClassification]

CallerIdle ==
  [pc |-> "idle", loads |-> 0, inferences |-> 0, history |-> <<>>, last |-> NoCall]

lifecycle_vars == <<yamnet, caller>>

\* The service:
\*   mgr      the YAMNetManager; its classifier is yamnet
\*   app      the lifespan's position (phase), whether
\*            app.state.audio_analyzer is set, and the last answers of the
\*            routes: health is the last answer of health_check and the
\*            classifier at that moment, statistics the statistics of the
\*            last answer of /stats or /health
\*   stats    AudioAnalyzer._analyzer_stats
\*   requests the analysis requests and the calls of
\*            analyze_audio_from_file, by number:
\*     pc        free, reading (analyze_audio_upload awaits file.read()),
\*               processing (the analyzer awaits the download), done
\*     route     url (analyze_audio_url), upload (analyze_audio_upload) or
\*               file (analyze_audio_from_file called on the analyzer)
\*     audio_url, top_k, max_retries   the arguments of a url request
\*     cause     the first exception raised in a failing request
\*     exc       the exception that left the analyzer call or the route's
\*               own checks
\*     status    the status code of the response, 0 when there is none
VARIABLES mgr, app, stats, requests

NoStatsAnswer == get_analyzer_stats(NewStats)

NoHealthAnswer ==
  [status |-> "none", error |-> "", yamnet_initialized |-> FALSE,
   audio_processor_ready |-> FALSE, statistics |-> NoStatsAnswer]

AppIdle ==
  [phase |-> "idle", audio_analyzer |-> FALSE,
   health |-> NoHealthAnswer, health_status_code |-> 0,
   health_classifier |-> NewClassifier,
   statistics |-> NoStatsAnswer]

FreeRequest ==
  [pc |-> "free", route |-> "none", audio_url |-> "", top_k |-> 0,
   max_retries |-> 0, cause |-> NoExc, exc |-> NoExc,
   status |-> 0]

\* The number of analysis requests.
MaxRequests == 2

Requests == 1..MaxRequests

service_vars == <<mgr, app, stats, requests>>

(***************************************************************************)
(* A YAMNetManager, the YAMNetClassifier objects made so far, and the      *)
(* asyncio tasks that call their methods.                                  *)
(*   classifiers  the YAMNetClassifier objects, in the order they were     *)
(*                made                                                     *)
(*   manager      the YAMNetManager: classifier is the number of the       *)
(*                object self.classifier holds, 0 for None                 *)
(*   tasks        for each task: pc is idle between two calls, else the    *)
(*                await of initialize that is pending; op the method       *)
(*                called last, target the classifier it works on, loaded   *)
(*                the model its own hub.load returned while its            *)
(*                initialize is pending (0: none), exc what it raised,     *)
(*                calls the number of calls made, budget the number of     *)
(*                calls the task may make                                  *)
(*   hub_loads    for every hub.load call that returned a model, the       *)
(*                number of the classifier it was made for                 *)
(***************************************************************************)
VARIABLES classifiers, manager, tasks, hub_loads

\* YAMNetManager.__init__, with the classifier as a number
FreshManager == [classifier |-> 0, _initialized |-> FALSE]

IdleTask ==
  [pc |-> "idle", op |-> "none", target |-> 0, loaded |-> 0, exc |-> NoExc,
   calls |-> 0, budget |-> 0]

\* The number of tasks.
MaxTasks == 2

Tasks == 1..MaxTasks

manager_vars == <<classifiers, manager, tasks, hub_loads>>

vars == <<mapper_vars, fetch_vars, proc, lifecycle_vars, service_vars, manager_vars>>

\* What an action of one part leaves alone in the other parts.
outside_mapper ==
  <<fetch_vars, proc, lifecycle_vars, service_vars, manager_vars>>

outside_fetch ==
  <<mapper_vars, proc, lifecycle_vars, service_vars, manager_vars>>

outside_proc ==
  <<mapper_vars, fetch_vars, lifecycle_vars, service_vars, manager_vars>>

outside_lifecycle ==
  <<mapper_vars, fetch_vars, proc, stats, requests, manager_vars>>

outside_service ==
  <<mapper_vars, fetch_vars, proc, manager_vars>>

outside_manager ==
  <<mapper_vars, fetch_vars, proc, lifecycle_vars, service_vars>>

MapperInit ==
  /\ \E inp \in GeneralInputs \cup ScenarioInputs :
       /\ class_names = inp.class_names
       /\ scores = inp.scores
  /\ mpc = "ready"
  /\ japanese_categories = <<>>
  /\ japanese_results = <<>>
  /\ other_call = NoOtherCall
  /\ previous_results = <<>>
  /\ env_scores = <<>>
  /\ primary_env = None
  /\ description = ""
  \* no URL request is made
  /\ audio_url = ""
  /\ max_retries = 0
  /\ fpc = "idle"
  /\ attempt = 0
  /\ fetches = 0
  /\ fetch_errors = <<>>
  /\ outcome = [kind |-> "none", cause |-> None]
  \* and no audio is processed
  /\ proc = ProcIdle
  /\ yamnet = NewClassifier
  /\ caller = CallerIdle
  /\ mgr = NewManager
  /\ app = AppIdle
  /\ stats = NewStats
  /\ classifiers = <<>>
  /\ manager = FreshManager
  /\ tasks = [t \in Tasks |-> IdleTask]
  /\ hub_loads = <<>>
  /\ requests = [i \in Requests |-> FreeRequest]

\* japanese_results = self._convert_to_japanese(final_top_classes, final_top_scores)
ConvertToJapanese ==
  /\ mpc = "ready"
  /\ japanese_categories' = CategoriesWithFallback(class_names, scores)
  /\ japanese_results' = _convert_to_japanese(class_names, scores)
  /\ mpc' = "converted"
  /\ UNCHANGED <<class_names, scores, other_call, previous_results, env_scores,
                 primary_env, description>>
  /\ UNCHANGED outside_mapper

\* env_scores, primary_env = self._estimate_environment_type(...)
EstimateEnvironmentType ==
  /\ mpc = "converted"
  /\ \E r \in {_estimate_environment_type(class_names, scores)} :
       /\ env_scores' = r.env_scores
       /\ primary_env' = r.primary_env
  /\ mpc' = "estimated"
  /\ UNCHANGED <<class_names, scores, japanese_categories, japanese_results,
                 other_call, previous_results, description>>
  /\ UNCHANGED outside_mapper

\* The same classifier serves another classification: an invocation of
\* _convert_to_japanese with other arguments, which builds its own dict
\* (japanese_categories = {} at its start) and returns its own list.
ConvertOther ==
  /\ mpc = "estimated"
  /\ \E inp \in OtherInputs :
       other_call' =
         [class_names |-> inp.class_names,
          scores |-> inp.scores,
          japanese_categories |-> CategoriesWithFallback(inp.class_names, inp.scores),
          japanese_results |-> _convert_to_japanese(inp.class_names, inp.scores)]
  /\ mpc' = "other"
  /\ UNCHANGED <<class_names, scores, japanese_categories, japanese_results,
                 previous_results, env_scores, primary_env, description>>
  /\ UNCHANGED outside_mapper

\* Variant of ConvertAgain in which the dict is not emptied at the start of
\* the invocation: the mapping loop goes on from the dict the invocation
\* before has left.
ConvertAgain_DictKept ==
  /\ mpc = "other"
  /\ previous_results' = japanese_results
  /\ \E kept \in {MapPairs(other_call.japanese_categories, class_names, scores, 1)} :
       /\ japanese_categories' = kept
       /\ \E sorted_results \in {SortedDescending(NormalizeCategories(kept))} :
            japanese_results' =
              [i \in DOMAIN sorted_results |->
                 [label |-> sorted_results[i].key,
                  confidence |-> sorted_results[i].value]]
  /\ mpc' = "repeated"
  /\ UNCHANGED <<class_names, scores, other_call, env_scores, primary_env,
                 description>>
  /\ UNCHANGED outside_mapper

\* A second invocation of _convert_to_japanese with the arguments of the
\* first, after the invocation for the other classification.  It starts
\* from its own empty dict, as every invocation does.
ConvertAgain ==
  /\ mpc = "other"
  /\ previous_results' = japanese_results
  /\ japanese_categories' = CategoriesWithFallback(class_names, scores)
  /\ japanese_results' = _convert_to_japanese(class_names, scores)
  /\ mpc' = "repeated"
  /\ UNCHANGED <<class_names, scores, other_call, env_scores, primary_env,
                 description>>
  /\ UNCHANGED outside_mapper

\* description=self._generate_environment_description(primary_env, env_scores)
\* of _perform_analysis, on what classify_audio returned
GenerateEnvironmentDescription ==
  /\ mpc = "repeated"
  /\ description' = _generate_environment_description(primary_env, env_scores)
  /\ mpc' = "described"
  /\ UNCHANGED <<class_names, scores, japanese_categories, japanese_results,
                 other_call, previous_results, env_scores, primary_env>>
  /\ UNCHANGED outside_mapper

MapperNext ==
  ConvertToJapanese \/ EstimateEnvironmentType \/ ConvertOther \/ ConvertAgain
    \/ GenerateEnvironmentDescription

(***************************************************************************)
(* AudioProcessor.process_audio_from_url                                   *)
(***************************************************************************)
\* Largest max_retries argument drawn (the smallest is -1).
MaxRetries == 3

AudioUrls ==
  {"http://host/a.wav", "https://host/a.webm", "ftp://host/a.wav",
   "HTTP://host/a.wav", "file:///tmp/a.wav", "host/a.wav", "https:/host", ""}

\* Variant of ValidUrl that accepts any scheme.
ValidUrl_AnyScheme(url) == StrIn("://", url)

\* audio_url.startswith(('http://', 'https://'))
ValidUrl(url) == StartsWith(url, "http://") \/ StartsWith(url, "https://")

\* What one `await self.client.get` followed by raise_for_status and
\* process_audio_from_bytes can do:
\*   audio           2xx response whose body is processed to a ProcessedAudio
\*   empty_body      2xx response with no bytes: process_audio_from_bytes
\*                   raises ValueError
\*   bad_audio       2xx response whose processing raises RuntimeError
\*   transport_error client.get raises an httpx.RequestError
\*   status_error    raise_for_status raises httpx.HTTPStatusError
\*   other_error     client.get raises an Exception that is no
\*                   httpx.HTTPError
\*   cancelled       the await raises asyncio.CancelledError
\* Variant of HTTPErrors that takes a failure of the processing for one.
HTTPErrors_AlsoBadAudio == {"transport_error", "status_error", "bad_audio"}

HTTPErrors == {"transport_error", "status_error"}

OtherExceptions == {"empty_body", "bad_audio", "other_error"}

AttemptResults == {"audio", "cancelled"} \cup HTTPErrors \cup OtherExceptions

NoOutcome == [kind |-> "none", cause |-> None]

\* Variant of Retryable that retries a cancelled attempt too.
Retryable_AlsoCancelled(result) == result \in HTTPErrors \cup {"cancelled"}

\* `except httpx.HTTPError`: the handler that may go on to the next attempt.
Retryable(result) == result \in HTTPErrors

FetchInit ==
  /\ audio_url \in AudioUrls
  /\ max_retries \in -1..MaxRetries
  /\ fpc = "start"
  /\ attempt = 0
  /\ fetches = 0
  /\ fetch_errors = <<>>
  /\ outcome = NoOutcome
  \* the mapper is not called
  /\ class_names = <<>>
  /\ scores = <<>>
  /\ mpc = "idle"
  /\ japanese_categories = <<>>
  /\ japanese_results = <<>>
  /\ other_call = NoOtherCall
  /\ previous_results = <<>>
  /\ env_scores = <<>>
  /\ primary_env = None
  /\ description = ""
  \* and no audio is processed
  /\ proc = ProcIdle
  /\ yamnet = NewClassifier
  /\ caller = CallerIdle
  /\ mgr = NewManager
  /\ app = AppIdle
  /\ stats = NewStats
  /\ classifiers = <<>>
  /\ manager = FreshManager
  /\ tasks = [t \in Tasks |-> IdleTask]
  /\ hub_loads = <<>>
  /\ requests = [i \in Requests |-> FreeRequest]

\* The scheme check: an invalid URL raises ValueError.
RejectUrl ==
  /\ fpc = "start"
  /\ ~ValidUrl(audio_url)
  /\ outcome' = [kind |-> "ValueError", cause |-> "Invalid audio URL format"]
  /\ fpc' = "raised"
  /\ UNCHANGED <<audio_url, max_retries, attempt, fetches, fetch_errors>>
  /\ UNCHANGED outside_fetch

\* The scheme check passes: enter `for attempt in range(max_retries + 1)`
\* and issue the GET of attempt 0; the coroutine then rests in
\* `await self.client.get` until the GET is answered.  An empty range ends
\* the function, which then returns None.
EnterLoop ==
  /\ fpc = "start"
  /\ ValidUrl(audio_url)
  /\ IF max_retries + 1 > 0
     THEN /\ fpc' = "pending"
          /\ fetches' = fetches + 1
          /\ outcome' = outcome
     ELSE /\ fpc' = "returned"
          /\ fetches' = fetches
          /\ outcome' = [kind |-> "None", cause |-> None]
  /\ UNCHANGED <<audio_url, max_retries, attempt, fetch_errors>>
  /\ UNCHANGED outside_fetch

\* Variant of LastAttempt that is one attempt late.
LastAttempt_OffByOne(n, retries) == n = retries + 1

\* `if attempt == max_retries` of the httpx.HTTPError handler.
LastAttempt(n, retries) == n = retries

\* The body of the loop for the current attempt, when it ends the call.
AttemptEnds(result) ==
  \/ /\ result = "audio"
     /\ outcome' = [kind |-> "ProcessedAudio", cause |-> None]
     /\ fpc' = "returned"
     /\ UNCHANGED fetch_errors
  \/ /\ result \in OtherExceptions
     /\ outcome' = [kind |-> "RuntimeError",
                    cause |-> [error |-> result, attempt |-> attempt]]
     /\ fpc' = "raised"
     /\ UNCHANGED fetch_errors
  \/ /\ result = "cancelled"
     /\ outcome' = [kind |-> "CancelledError", cause |-> None]
     /\ fpc' = "raised"
     /\ UNCHANGED fetch_errors
  \/ /\ Retryable(result)
     /\ LastAttempt(attempt, max_retries)
     /\ outcome' = [kind |-> "RuntimeError",
                    cause |-> [error |-> result, attempt |-> attempt]]
     /\ fetch_errors' = Append(fetch_errors, [error |-> result, attempt |-> attempt])
     /\ fpc' = "raised"

\* The pending GET is answered and the coroutine runs on from
\* `await self.client.get`: the rest of the iteration, which returns,
\* raises, or continues with the next iteration up to its GET, where the
\* coroutine rests again.
FetchAttempt ==
  /\ fpc = "pending"
  /\ \E result \in AttemptResults :
       \/ /\ AttemptEnds(result)
          /\ UNCHANGED <<attempt, fetches>>
       \/ /\ Retryable(result)
          /\ ~LastAttempt(attempt, max_retries)
          /\ fetch_errors' = Append(fetch_errors, [error |-> result, attempt |-> attempt])
          /\ IF attempt + 1 < max_retries + 1
             THEN /\ attempt' = attempt + 1
                  /\ fetches' = fetches + 1
                  /\ fpc' = "pending"
                  /\ outcome' = outcome
             ELSE /\ attempt' = attempt
                  /\ fetches' = fetches
                  /\ fpc' = "returned"
                  /\ outcome' = [kind |-> "None", cause |-> None]
  /\ UNCHANGED <<audio_url, max_retries>>
  /\ UNCHANGED outside_fetch

FetchNext == RejectUrl \/ EnterLoop \/ FetchAttempt

(***************************************************************************)
(* AudioProcessor.process_audio_from_bytes, with process_audio_from_file   *)
(* and _convert_webm_to_wav which it calls.                                *)
(***************************************************************************)
\* Byte strings the argument audio_bytes is drawn from: empty, a RIFF
\* header, two MPEG frame headers, an EBML header naming webm in lower and
\* in upper case, an Ogg page, and a header naming webm only after its
\* first 100 bytes.
AudioBytes ==
  {<<>>,
   <<82, 73, 70, 70, 36, 8, 0, 0>>,
   <<255, 251, 144, 0>>,
   <<255, 243, 64, 0>>,
   <<26, 69, 223, 163, 66, 130, 132, 119, 101, 98, 109>>,
   <<26, 69, 223, 163, 66, 130, 132, 87, 69, 66, 77>>,
   <<79, 103, 103, 83, 0, 2>>,
   [i \in 1..104 |-> IF i <= 100 THEN 0 ELSE WEBM[i - 100]]}

FilenameHints ==
  {None, "", "a.wav", "clip.WEBM", "notes.txt", "noext", ".mp3", "a.",
   "rec.d/take", "b.tar.ogg", "x.webm"}

\* What librosa.load(path, sr=None, mono=True) can return: the native rate
\* and the samples.
DecodedAudio ==
  {[sr |-> 16000, waveform |-> <<>>],
   [sr |-> 16000, waveform |-> <<Finite(2, 1599)>>],
   [sr |-> 16000, waveform |-> <<Finite(0, 800)>>],
   [sr |-> 16000, waveform |-> <<Finite(2, 240)>>],
   [sr |-> 8000, waveform |-> <<Finite(-1, 600)>>],
   [sr |-> 16000, waveform |-> <<Finite(0, 100), NonFinite("inf", 1)>>],
   [sr |-> 16000, waveform |-> <<Finite(0, 16000)>>],
   [sr |-> 16000, waveform |-> <<Finite(2, 1600)>>],
   [sr |-> 16000, waveform |-> <<Finite(1, 8000), NonFinite("nan", 1), Finite(1, 7999)>>],
   [sr |-> 16000, waveform |-> <<Finite(0, 16000), NonFinite("-inf", 1)>>],
   [sr |-> 16000, waveform |-> <<Finite(3, 480000)>>],
   [sr |-> 16000, waveform |-> <<Finite(3, 480001)>>],
   [sr |-> 16000, waveform |-> <<Finite(0, 480000), Finite(2, 160000)>>],
   [sr |-> 16000, waveform |-> <<Finite(1, 300000), Finite(-3, 300000)>>],
   [sr |-> 16000, waveform |-> <<Finite(0, 15999), Finite(4, 1)>>],
   [sr |-> 16000, waveform |-> <<Finite(-2, 8000), Finite(2, 8000)>>],
   [sr |-> 8000, waveform |-> <<Finite(2, 240000)>>],
   [sr |-> 8000, waveform |-> <<Finite(2, 240001)>>],
   [sr |-> 8000, waveform |-> <<Finite(0, 799)>>],
   [sr |-> 44100, waveform |-> <<Finite(1, 220500)>>],
   [sr |-> 44100, waveform |-> <<Finite(0, 1323000), Finite(1, 1)>>],
   [sr |-> 48000, waveform |-> <<Finite(2, 4799)>>],
   [sr |-> 48000, waveform |-> <<Finite(-1, 4800)>>]}

\* The runs of a waveform on the resampled time axis: a run that ends at
\* sample e of the input ends at sample ResampledLength(e) of the output,
\* and a run that gets no sample there disappears.
RECURSIVE RunsResampled(_, _, _, _)
RunsResampled(w, original_sr, in_end, out_end) ==
  IF w = <<>> THEN <<>>
  ELSE LET e == in_end + Head(w).count
           r == ResampledLength(e, original_sr)
       IN  (IF r > out_end THEN <<[Head(w) EXCEPT !.count = r - out_end]>>
            ELSE <<>>)
             \o RunsResampled(Tail(w), original_sr, e, r)

\* What librosa.resample can return for a valid waveform.  The kaiser_fast
\* filter itself is not computed: the output has the resampled length and
\* follows the runs of the input, either exactly or with its last sample
\* overshooting by one unit.
ResamplerOutputs(waveform, original_sr) ==
  LET exact == RunsResampled(waveform, original_sr, 0, 0)
      n == Len(exact)
      last == exact[n]
      peak == Finite(last.value + (IF last.value < 0 THEN -1 ELSE 1), 1)
  IN  {exact,
       IF last.count > 1
       THEN SubSeq(exact, 1, n - 1) \o <<[last EXCEPT !.count = @ - 1], peak>>
       ELSE SubSeq(exact, 1, n - 1) \o <<peak>>}

\* The paths given to process_audio_from_file.
FilePaths ==
  {"/data/a.wav", "/data/take.WEBM", "/data/notes.txt", "/data/noext", "."}

\* The sizes in bytes of the file ffmpeg writes.
WavSizes == {24, 44}

\* A call of process_audio_from_bytes with its arguments, or a call of
\* process_audio_from_file with a path that exists, the file holding some
\* bytes, or does not exist.
ProcessInit ==
  /\ \/ \E b \in AudioBytes, h \in FilenameHints :
          proc = [ProcIdle EXCEPT !.pc = "start", !.audio_bytes = b,
                                  !.filename_hint = h]
     \/ \E path \in FilePaths, on_disk \in BOOLEAN :
          proc = [ProcIdle EXCEPT !.pc = "start_file", !.file_path = path,
                                  !.on_disk = on_disk,
                                  !.audio_bytes = IF on_disk THEN RIFF ELSE <<>>,
                                  !.st_size = IF on_disk THEN Len(RIFF) ELSE 0]
  \* no mapper call and no URL request are made
  /\ class_names = <<>>
  /\ scores = <<>>
  /\ mpc = "idle"
  /\ japanese_categories = <<>>
  /\ japanese_results = <<>>
  /\ other_call = NoOtherCall
  /\ previous_results = <<>>
  /\ env_scores = <<>>
  /\ primary_env = None
  /\ description = ""
  /\ audio_url = ""
  /\ max_retries = 0
  /\ fpc = "idle"
  /\ attempt = 0
  /\ fetches = 0
  /\ fetch_errors = <<>>
  /\ outcome = NoOutcome
  /\ yamnet = NewClassifier
  /\ caller = CallerIdle
  /\ mgr = NewManager
  /\ app = AppIdle
  /\ stats = NewStats
  /\ classifiers = <<>>
  /\ manager = FreshManager
  /\ tasks = [t \in Tasks |-> IdleTask]
  /\ hub_loads = <<>>
  /\ requests = [i \in Requests |-> FreeRequest]

\* Path(path).unlink(missing_ok=True)
Unlink(files, path) == files \ {path}

\* An exception leaves the try block of process_audio_from_file: chain holds
\* the exceptions raised so far, the latest last.  process_audio_from_file
\* wraps it, process_audio_from_bytes wraps that and its finally clause
\* unlinks the spooled file.
FailInFile(p, chain, files) ==
  LET e1 == ProcessingFailed(chain[Len(chain)])
      e2 == ProcessingFailed(e1)
  IN  [p EXCEPT !.pc = "raised",
                !.raised = IF p.temp_file = None THEN chain \o <<e1>>
                           ELSE chain \o <<e1, e2>>,
                !.files = Unlink(files, p.temp_file)]

\* Variant of FileRefused that looks at the suffix first.
FileRefused_SuffixFirst(path, on_disk) ==
  IF lower(PathSuffix(path)) \notin SUPPORTED_FORMATS
  THEN Exc("ValueError", "Unsupported audio format: " \o PathSuffix(path))
  ELSE IF ~on_disk
  THEN Exc("FileNotFoundError", "Audio file not found: " \o PathStr(path))
  ELSE NoExc

\* The checks process_audio_from_file makes before its try block: the
\* exception raised, NoExc when the call goes on.
FileRefused(path, on_disk) ==
  IF ~on_disk
  THEN Exc("FileNotFoundError", "Audio file not found: " \o PathStr(path))
  ELSE IF lower(PathSuffix(path)) \notin SUPPORTED_FORMATS
  THEN Exc("ValueError", "Unsupported audio format: " \o PathSuffix(path))
  ELSE NoExc

\* process_audio_from_file called with a path, up to the entry of its try
\* block.
ProcessAudioFromFile ==
  /\ proc.pc = "start_file"
  /\ LET e == FileRefused(proc.file_path, proc.on_disk)
     IN  IF e # NoExc
         THEN proc' = [proc EXCEPT !.pc = "raised", !.raised = <<e>>]
         ELSE proc' = [proc EXCEPT !.pc = "spooled"]
  /\ UNCHANGED outside_proc

\* process_audio_from_bytes up to the entry of the try block of
\* process_audio_from_file: the emptiness check, the spooled file and the
\* suffix check.
SpoolBytes ==
  /\ proc.pc = "start"
  /\ IF proc.audio_bytes = <<>>
     THEN proc' = [proc EXCEPT !.pc = "raised",
                               !.raised = <<Exc("ValueError", "Empty audio data")>>]
     ELSE LET name == TempName(_determine_file_extension(proc.filename_hint,
                                                         proc.audio_bytes))
              spooled == [proc EXCEPT !.temp_file = name,
                                      !.file_path = name,
                                      !.st_size = Len(proc.audio_bytes),
                                      !.files = @ \cup {name}]
          IN  IF FileRefused(name, TRUE) # NoExc
              THEN LET e == FileRefused(name, TRUE)
                   IN  proc' = [spooled EXCEPT
                                  !.pc = "raised",
                                  !.raised = <<e, ProcessingFailed(e)>>,
                                  !.files = Unlink(spooled.files, name)]
              ELSE proc' = [spooled EXCEPT !.pc = "spooled"]
  /\ UNCHANGED outside_proc

\* file_path.suffix.lower() == '.webm'
IsWebm(path) == lower(PathSuffix(path)) = ".webm"

\* What ffmpeg's run can do: write the output, fail with ffmpeg.Error with
\* or without a partial output on disk, return without an output, or find
\* no ffmpeg executable.
FfmpegResults ==
  {"written", "error", "error_partial_output", "no_output", "no_executable"}

\* _convert_webm_to_wav for the spooled .webm file.
ConvertWebmToWav ==
  /\ proc.pc = "spooled"
  /\ IsWebm(proc.file_path)
  /\ LET wav_path == WithSuffix(proc.file_path, ".wav")
     IN  \E r \in FfmpegResults :
           proc' \in
             CASE r = "written" ->
                    {[proc EXCEPT !.pc = "converted", !.file_path = wav_path,
                                  !.st_size = size,
                                  !.files = @ \cup {wav_path}] : size \in WavSizes}
               [] r \in {"error", "error_partial_output"} ->
                    LET e == Exc("Error", "ffmpeg error (see stderr output for detail)")
                        w == ConversionFailed(e)
                    IN  {FailInFile(proc, <<e, w>>,
                                    IF r = "error" THEN proc.files
                                    ELSE proc.files \cup {wav_path})}
               [] r = "no_output" ->
                    LET e == Exc("RuntimeError",
                                 "WAV conversion failed - output file not created")
                        w == Exc("RuntimeError", "WebM conversion failed: " \o e.msg)
                    IN  {FailInFile(proc, <<e, w>>, proc.files)}
               [] r = "no_executable" ->
                    LET e == Exc("FileNotFoundError",
                                 "[Errno 2] No such file or directory: 'ffmpeg'")
                        w == Exc("RuntimeError", "WebM conversion failed: " \o e.msg)
                    IN  {FailInFile(proc, <<e, w>>, proc.files)}
  /\ UNCHANGED outside_proc

\* librosa.load and the metadata read of process_audio_from_file.  The
\* output of ffmpeg is written at 16000 Hz (ar=16000).
LoadAudio ==
  /\ \/ proc.pc = "converted"
     \/ proc.pc = "spooled" /\ ~IsWebm(proc.file_path)
  /\ \/ \E d \in DecodedAudio :
          /\ proc.pc = "converted" => d.sr = 16000
          /\ proc' = [proc EXCEPT !.pc = "loaded",
                                  !.waveform = d.waveform,
                                  !.original_sr = d.sr,
                                  !.duration = Frac(WaveLen(d.waveform), d.sr)]
     \/ proc' = FailInFile(proc, <<Exc("LibsndfileError", "Format not recognised.")>>,
                           proc.files)
  /\ UNCHANGED outside_proc

\* self._validate_audio_data(waveform, original_metadata)
ValidateAudioData ==
  /\ proc.pc = "loaded"
  /\ LET e == _validate_audio_data(proc.waveform, proc.duration)
     IN  IF e # NoExc
         THEN proc' = [FailInFile(proc, <<e>>, proc.files) EXCEPT !.validation = e]
         ELSE proc' = [proc EXCEPT !.pc = "validated"]
  /\ UNCHANGED outside_proc

\* _preprocess_for_yamnet, the ProcessedAudio built from it, and the return
\* of process_audio_from_bytes through its finally clause.  The metadata
\* carry the size of the file at file_path, the converted file after a
\* conversion; process_audio_from_bytes puts len(audio_bytes) in its place.
PreprocessForYamnet ==
  /\ proc.pc = "validated"
  /\ \E out \in (IF NeedsResample(proc.original_sr)
                 THEN ResamplerOutputs(proc.waveform, proc.original_sr)
                 ELSE {<<>>}) :
       LET r == _preprocess_for_yamnet(proc.waveform, proc.original_sr, out)
       IN  proc' = [proc EXCEPT
                      !.pc = "returned",
                      !.resampled_waveform =
                        AfterResample(proc.waveform, proc.original_sr, out),
                      !.truncated_waveform =
                        AfterTruncate(AfterResample(proc.waveform,
                                                    proc.original_sr, out)),
                      !.result =
                        [waveform |-> r.waveform,
                         sample_rate |-> TARGET_SAMPLE_RATE,
                         original_metadata |->
                           [duration |-> proc.duration,
                            sample_rate |-> proc.original_sr,
                            format |-> lower(PathSuffix(proc.file_path)),
                            file_size |-> IF proc.temp_file = None
                                          THEN proc.st_size
                                          ELSE Len(proc.audio_bytes)],
                         processing_info |-> r.processing_info],
                      !.files = Unlink(@, proc.temp_file)]
  /\ UNCHANGED outside_proc

ProcessNext ==
  SpoolBytes \/ ProcessAudioFromFile \/ ConvertWebmToWav \/ LoadAudio \/ ValidateAudioData \/ PreprocessForYamnet

(***************************************************************************)
(* A YAMNetClassifier and one caller that calls initialize, classify_audio *)
(* and cleanup one after the other.                                        *)
(***************************************************************************)
\* The number of calls the caller makes.
MaxCalls == 3

\* What the model gives when it is called: an exception, three classes
\* with different mean scores, or two classes with the same mean score in
\* either order of np.argsort.
ModelRuns ==
  {[NoRun EXCEPT !.exc = Exc("InvalidArgumentError", "Graph execution error")],
   [NoRun EXCEPT !.class_names = <<"Bird", "Speech", "Car">>,
                 !.mean_scores = <<5, 6000, 3000>>, !.argsort = <<1, 3, 2>>],
   [NoRun EXCEPT !.class_names = <<"Gasp", "Rain">>,
                 !.mean_scores = <<4000, 4000>>, !.argsort = <<1, 2>>],
   [NoRun EXCEPT !.class_names = <<"Gasp", "Rain">>,
                 !.mean_scores = <<4000, 4000>>, !.argsort = <<2, 1>>]}

SampleRates == {0, 8000, 16000}

\* len(audio_waveform) of the calls
WaveformLengths == {0, 16000}

TopKs == {0, 1, 2, 5}

ClassifierInit ==
  /\ yamnet = NewClassifier
  /\ caller = CallerIdle
  /\ mgr = NewManager
  /\ app = AppIdle
  /\ stats = NewStats
  /\ classifiers = <<>>
  /\ manager = FreshManager
  /\ tasks = [t \in Tasks |-> IdleTask]
  /\ hub_loads = <<>>
  /\ requests = [i \in Requests |-> FreeRequest]
  \* nothing else runs
  /\ class_names = <<>>
  /\ scores = <<>>
  /\ mpc = "idle"
  /\ japanese_categories = <<>>
  /\ japanese_results = <<>>
  /\ other_call = NoOtherCall
  /\ previous_results = <<>>
  /\ env_scores = <<>>
  /\ primary_env = None
  /\ description = ""
  /\ audio_url = ""
  /\ max_retries = 0
  /\ fpc = "idle"
  /\ attempt = 0
  /\ fetches = 0
  /\ fetch_errors = <<>>
  /\ outcome = NoOutcome
  /\ proc = ProcIdle

\* The caller may start another call.
MayCall == caller.pc = "idle" /\ Len(caller.history) < MaxCalls

\* The record of a call that starts now.
CallNow(op) ==
  [NoCall EXCEPT !.op = op, !.before = yamnet, !.loads_before = caller.loads,
                 !.inferences_before = caller.inferences]

\* The caller after the call `call` has ended raising exc (NoExc: returned).
Completed(c, call, exc) ==
  [c EXCEPT !.pc = "idle",
            !.history = Append(@, call.op),
            !.last = [call EXCEPT !.exc = exc]]

\* `if self._initialized` of initialize
AlreadyInitialized(c) == c._initialized

\* await classifier.initialize(): the guard.  An initialized classifier
\* returns at once; otherwise the call goes on to load the model.
Initialize ==
  /\ MayCall
  /\ IF AlreadyInitialized(yamnet)
     THEN caller' = Completed(caller, CallNow("initialize"), NoExc)
     ELSE caller' = [caller EXCEPT !.pc = "hub_load",
                                   !.last = CallNow("initialize")]
  /\ UNCHANGED <<yamnet, mgr, app>>
  /\ UNCHANGED outside_lifecycle

\* The pending initialize was called through YAMNetManager.initialize.
ThroughManager == caller.last.op = "manager.initialize"

\* The pending initialize ends raising exc (NoExc: it returns).  Called
\* through the manager, its exception is wrapped once more, its return sets
\* the manager's flag, and the lifespan goes on to make the analyzer or
\* gives up.
InitializeEnds(c, exc) ==
  /\ caller' = Completed(c, caller.last,
                         IF ThroughManager /\ exc # NoExc
                         THEN ManagerInitializationFailed(exc) ELSE exc)
  /\ mgr' = IF ThroughManager /\ exc = NoExc
            THEN [mgr EXCEPT !._initialized = TRUE] ELSE mgr
  /\ app' = IF ThroughManager
            THEN [app EXCEPT !.phase = IF exc = NoExc THEN "serving" ELSE "failed",
                             !.audio_analyzer = (exc = NoExc)]
            ELSE app

\* self.model = await loop.run_in_executor(None, hub.load, self.model_url)
HubLoad ==
  /\ caller.pc = "hub_load"
  /\ \/ /\ yamnet' = [yamnet EXCEPT !.model = caller.loads + 1]
        /\ caller' = [caller EXCEPT !.pc = "load_class_names", !.loads = @ + 1]
        /\ UNCHANGED <<mgr, app>>
     \/ /\ InitializeEnds([caller EXCEPT !.loads = @ + 1],
                          InitializationFailed(Exc("OSError", "model not found")))
        /\ UNCHANGED yamnet
  /\ UNCHANGED outside_lifecycle

\* self.class_names = await loop.run_in_executor(None, self._load_class_names,
\* ...), and then self._initialized = True
LoadClassNames ==
  /\ caller.pc = "load_class_names"
  /\ \/ /\ yamnet' = [yamnet EXCEPT !.class_names = yamnet.model,
                                    !._initialized = TRUE]
        /\ InitializeEnds(caller, NoExc)
     \/ /\ InitializeEnds(caller, InitializationFailed(
                                    Exc("NotFoundError", "class map not found")))
        /\ UNCHANGED yamnet
  /\ UNCHANGED outside_lifecycle

\* classifier.classify_audio(audio_waveform, sample_rate, top_k)
ClassifyAudio ==
  /\ MayCall
  /\ \E ndim \in {1, 2}, samples \in WaveformLengths,
        sample_rate \in SampleRates, top_k \in TopKs, run \in ModelRuns :
       \E r \in {classify_audio(yamnet, ndim, samples, sample_rate, top_k, run)} :
         caller' = Completed([caller EXCEPT
                                !.inferences = IF r.model_called THEN @ + 1 ELSE @],
                             [CallNow("classify_audio") EXCEPT
                                !.ndim = ndim, !.samples = samples,
                                !.sample_rate = sample_rate,
                                !.top_k = top_k,
                                !.run = IF r.exc = NoExc THEN run ELSE NoRun,
                                !.final_top_indices = r.final_top_indices,
                                !.returned = r.returned],
                             r.exc)
  /\ UNCHANGED <<yamnet, mgr, app>>
  /\ UNCHANGED outside_lifecycle

\* await classifier.cleanup()
Cleanup ==
  /\ MayCall
  /\ yamnet' = CleanedUp(yamnet)
  /\ caller' = Completed(caller, CallNow("cleanup"), NoExc)
  /\ UNCHANGED <<mgr, app>>
  /\ UNCHANGED outside_lifecycle

ClassifierNext == Initialize \/ HubLoad \/ LoadClassNames \/ ClassifyAudio \/ Cleanup

(***************************************************************************)
(* The service: the lifespan initializes the manager and makes the         *)
(* analyzer, requests come in on the routes and are worked on              *)
(* concurrently, and the lifespan cleans the manager up.                   *)
(***************************************************************************)
ServiceUrls == {"https://host/b.webm", "ftp://host/a.wav"}

\* The HttpUrl field of AudioAnalysisRequest takes http and https URLs.
SchemaAccepts(url) == StartsWith(url, "http://") \/ StartsWith(url, "https://")

RouteTopKs == {5}

\* len(processed_audio.waveform) of the ProcessedAudio the processor
\* returned: one second at the target rate.
ProcessedSamples == 1 * TARGET_SAMPLE_RATE

RouteMaxRetries == {0, 3}

\* time.time() - start_time of a request, in milliseconds
ProcessingTimes == {250}

\* What `await self.audio_processor.process_audio_from_url` ends with once
\* the URL has passed the scheme check: the ProcessedAudio (NoExc) or the
\* chain of exceptions, the first raised first.
UrlEndings(retries) ==
  {<<NoExc>>,
   <<Cancelled>>,
   <<Exc("ConnectError", "All connection attempts failed"),
     DownloadFailed(retries, Exc("ConnectError", "All connection attempts failed"))>>,
   <<Exc("ValueError", "Empty audio data"),
     ProcessingFailed(Exc("ValueError", "Empty audio data"))>>,
   <<_validate_audio_data(<<>>, Frac(0, 1)),
     ProcessingFailed(_validate_audio_data(<<>>, Frac(0, 1))),
     ProcessingFailed(ProcessingFailed(_validate_audio_data(<<>>, Frac(0, 1)))),
     ProcessingFailed(ProcessingFailed(ProcessingFailed(
       _validate_audio_data(<<>>, Frac(0, 1)))))>>}

\* What `await self.audio_processor.process_audio_from_bytes` ends with for
\* bytes that are not empty.
BytesEndings ==
  {<<NoExc>>,
   <<Exc("LibsndfileError", "Format not recognised."),
     ProcessingFailed(Exc("LibsndfileError", "Format not recognised.")),
     ProcessingFailed(ProcessingFailed(
       Exc("LibsndfileError", "Format not recognised.")))>>,
   <<Exc("Error", "ffmpeg error (see stderr output for detail)"),
     ConversionFailed(Exc("Error", "ffmpeg error (see stderr output for detail)")),
     ProcessingFailed(ConversionFailed(
       Exc("Error", "ffmpeg error (see stderr output for detail)"))),
     ProcessingFailed(ProcessingFailed(ConversionFailed(
       Exc("Error", "ffmpeg error (see stderr output for detail)"))))>>}

\* What `await self.audio_processor.process_audio_from_file` ends with for
\* a path of the caller: a file that is decoded, one that is not, and a
\* path that does not exist, which is refused outside the try block of
\* process_audio_from_file.
FileEndings ==
  {<<NoExc>>,
   <<Exc("LibsndfileError", "Format not recognised."),
     ProcessingFailed(Exc("LibsndfileError", "Format not recognised."))>>,
   <<Exc("FileNotFoundError", "Audio file not found: " \o PathStr("a/b.wav"))>>}

\* What the model does when a request calls it: it raises, or it gives
\* its scores.
ServiceRuns == {run \in ModelRuns : Len(run.mean_scores) \in {0, 3}}

ContentTypes == {"", "audio/wav", "VIDEO/webm", "text/plain"}

UploadSizes == {0, 2048, MAX_FILE_SIZE, MAX_FILE_SIZE + 1}

UploadTopKs == {0, 5, 21}

Last(chain) == chain[Len(chain)]

\* The request r once it is answered: the arguments are gone, what is kept
\* is how it ended.
Done(r, cause, exc, status) ==
  [FreeRequest EXCEPT !.pc = "done", !.route = r.route, !.cause = cause,
                      !.exc = exc, !.status = status]

ServiceInit ==
  /\ mgr = NewManager
  /\ app = [AppIdle EXCEPT !.phase = "starting"]
  /\ stats = NewStats
  /\ classifiers = <<>>
  /\ manager = FreshManager
  /\ tasks = [t \in Tasks |-> IdleTask]
  /\ hub_loads = <<>>
  /\ requests = [i \in Requests |-> FreeRequest]
  /\ yamnet = NewClassifier
  /\ caller = CallerIdle
  \* nothing else runs
  /\ class_names = <<>>
  /\ scores = <<>>
  /\ mpc = "idle"
  /\ japanese_categories = <<>>
  /\ japanese_results = <<>>
  /\ other_call = NoOtherCall
  /\ previous_results = <<>>
  /\ env_scores = <<>>
  /\ primary_env = None
  /\ description = ""
  /\ audio_url = ""
  /\ max_retries = 0
  /\ fpc = "idle"
  /\ attempt = 0
  /\ fetches = 0
  /\ fetch_errors = <<>>
  /\ outcome = NoOutcome
  /\ proc = ProcIdle

\* lifespan, startup: `await yamnet_manager.initialize()` up to the first
\* await of the classifier's initialize.
Startup ==
  /\ app.phase = "starting"
  /\ caller.pc = "idle"
  /\ IF mgr._initialized
     THEN /\ caller' = Completed(caller, CallNow("manager.initialize"), NoExc)
          /\ app' = [app EXCEPT !.phase = "serving", !.audio_analyzer = TRUE]
          /\ UNCHANGED <<mgr, yamnet>>
     ELSE /\ yamnet' = NewClassifier
          /\ mgr' = [mgr EXCEPT !.classifier = TRUE]
          /\ caller' = [caller EXCEPT !.pc = "hub_load",
                                      !.last = CallNow("manager.initialize")]
          /\ app' = [app EXCEPT !.phase = "initializing"]
  /\ UNCHANGED <<stats, requests>>
  /\ UNCHANGED outside_service

\* lifespan, shutdown: `await app.state.yamnet_manager.cleanup()`
Shutdown ==
  /\ app.phase = "serving"
  /\ yamnet' = IF mgr.classifier THEN CleanedUp(yamnet) ELSE yamnet
  /\ mgr' = ManagerCleanedUp(mgr)
  /\ caller' = Completed(caller, CallNow("manager.cleanup"), NoExc)
  /\ app' = [app EXCEPT !.phase = "stopped"]
  /\ UNCHANGED <<stats, requests>>
  /\ UNCHANGED outside_service

\* The server answers requests once the startup is through.
Accepting == app.phase \in {"serving", "stopped"}

\* Requests take the free numbers in order.
NextFree(i) ==
  /\ requests[i].pc = "free"
  /\ \A j \in Requests : j < i => requests[j].pc # "free"

\* POST /analyze/audio: the schema, get_audio_analyzer, and
\* analyze_audio_from_url up to the first await of
\* process_audio_from_url.
PostAnalyzeAudio(i) ==
  /\ Accepting
  /\ NextFree(i)
  /\ \E url \in ServiceUrls, top_k \in RouteTopKs, retries \in RouteMaxRetries :
       LET r == [requests[i] EXCEPT !.route = "url", !.audio_url = url,
                                    !.top_k = top_k, !.max_retries = retries]
           invalid == Exc("ValueError", "Invalid audio URL format")
       IN  IF ~SchemaAccepts(url)
           THEN /\ requests' = [requests EXCEPT ![i] =
                     Done(r, Exc("RequestValidationError", "URL scheme not permitted"),
                          Exc("RequestValidationError", "URL scheme not permitted"),
                          422)]
                /\ UNCHANGED stats
           ELSE IF ~app.audio_analyzer
           THEN /\ requests' = [requests EXCEPT ![i] =
                     Done(r, Exc("HTTPException", "Audio analyzer not initialized"),
                          Exc("HTTPException", "Audio analyzer not initialized"),
                          503)]
                /\ UNCHANGED stats
           ELSE IF ~ValidUrl(url)
           THEN /\ requests' = [requests EXCEPT ![i] =
                     Done(r, invalid,
                          AnalysisFailed(invalid),
                          RouteStatus(AnalysisFailed(invalid)))]
                /\ stats' = Incremented(Incremented(stats, "total_analyses"),
                                        "failed_analyses")
           ELSE /\ requests' = [requests EXCEPT ![i] =
                     [r EXCEPT !.pc = "processing"]]
                /\ stats' = Incremented(stats, "total_analyses")
  /\ UNCHANGED <<mgr, app, yamnet, caller>>
  /\ UNCHANGED outside_service

\* The status the request r is answered with when its analysis ended with
\* exc (NoExc: a result).  A call of analyze_audio_from_file is no request
\* of a route and has no status.
Answer(r, exc) ==
  IF r.route = "file" THEN 0
  ELSE IF exc = NoExc THEN 200
  ELSE RouteStatus(exc)

\* What follows `await process_audio_from_...` in analyze_audio_from_url,
\* analyze_audio_from_bytes and analyze_audio_from_file when the await ended
\* with the chain `ending`, and the route's handlers after it, for the
\* request r.
AfterProcessing(i, r, ending, counters) ==
  IF Last(ending) = Cancelled
  THEN /\ requests' = [requests EXCEPT ![i] = Done(r, Cancelled, Cancelled, 0)]
       /\ stats' = counters
       /\ UNCHANGED caller
  ELSE IF Last(ending) # NoExc
  THEN /\ requests' = [requests EXCEPT ![i] =
            Done(r, ending[1], AnalysisFailed(Last(ending)),
                 Answer(r, AnalysisFailed(Last(ending))))]
       /\ stats' = Incremented(counters, "failed_analyses")
       /\ UNCHANGED caller
  ELSE \E run \in ServiceRuns :
       \E a \in {_perform_analysis(mgr, yamnet, ProcessedSamples,
                                   TARGET_SAMPLE_RATE, r.top_k, run)} :
         /\ caller' = [caller EXCEPT
                         !.inferences = IF a.model_called THEN @ + 1 ELSE @]
         /\ IF a.exc # NoExc
            THEN /\ requests' = [requests EXCEPT ![i] =
                      Done(r, a.cause, AnalysisFailed(a.exc),
                           Answer(r, AnalysisFailed(a.exc)))]
                 /\ stats' = Incremented(counters, "failed_analyses")
            ELSE \E processing_time \in ProcessingTimes :
                 /\ requests' = [requests EXCEPT ![i] =
                                   Done(r, NoExc, NoExc, Answer(r, NoExc))]
                 /\ stats' = [Incremented(counters, "successful_analyses") EXCEPT
                                !.total_processing_time = @ + processing_time]

\* analyze_audio_from_url resumes when process_audio_from_url ends.
DownloadEnds(i) ==
  /\ requests[i].pc = "processing"
  /\ \E ending \in UrlEndings(requests[i].max_retries) :
       AfterProcessing(i, requests[i], ending, stats)
  /\ UNCHANGED <<mgr, app, yamnet>>
  /\ UNCHANGED outside_service

\* POST /analyze/audio/upload up to `await file.read()`: get_audio_analyzer
\* and the checks of top_k and of the content type.  The request then
\* rests until the file is read.
PostAnalyzeUpload(i) ==
  /\ Accepting
  /\ NextFree(i)
  /\ \E top_k \in UploadTopKs, content_type \in ContentTypes :
       LET r == [requests[i] EXCEPT !.route = "upload", !.top_k = top_k]
           refused == UploadRefused(top_k, content_type)
       IN  requests' = [requests EXCEPT ![i] =
             IF ~app.audio_analyzer
             THEN Done(r, Exc("HTTPException", "Audio analyzer not initialized"),
                       Exc("HTTPException", "Audio analyzer not initialized"),
                       503)
             ELSE IF refused # NoExc
             THEN Done(r, refused, refused, RouteStatus(refused))
             ELSE [r EXCEPT !.pc = "reading"]]
  /\ UNCHANGED <<mgr, app, stats, yamnet, caller>>
  /\ UNCHANGED outside_service

\* analyze_audio_upload resumes with the bytes of the file: the checks of
\* their number, analyze_audio_from_bytes, which has no await that suspends
\* it, and the route's handlers.
UploadReadEnds(i) ==
  /\ requests[i].pc = "reading"
  /\ \E size \in UploadSizes :
       IF SizeRefused(size) # NoExc
       THEN /\ requests' = [requests EXCEPT ![i] =
                 Done(@, SizeRefused(size), SizeRefused(size),
                      RouteStatus(SizeRefused(size)))]
            /\ UNCHANGED <<stats, caller>>
       ELSE \E ending \in BytesEndings :
              AfterProcessing(i, requests[i], ending,
                              Incremented(stats, "total_analyses"))
  /\ UNCHANGED <<mgr, app, yamnet>>
  /\ UNCHANGED outside_service

\* AudioAnalyzer.analyze_audio_from_file called on the analyzer of the
\* service; no route calls it and none of its awaits suspends it.  The call
\* is kept like a request, its route being "file".
AnalyzeAudioFromFile(i) ==
  /\ app.audio_analyzer
  /\ NextFree(i)
  /\ \E top_k \in RouteTopKs, ending \in FileEndings :
       AfterProcessing(i, [requests[i] EXCEPT !.route = "file", !.top_k = top_k],
                       ending, Incremented(stats, "total_analyses"))
  /\ UNCHANGED <<mgr, app, yamnet>>
  /\ UNCHANGED outside_service

\* GET /stats
GetAnalysisStats ==
  /\ Accepting
  /\ app.audio_analyzer
  /\ app' = [app EXCEPT !.statistics = get_analyzer_stats(stats)]
  /\ UNCHANGED <<mgr, stats, requests, yamnet, caller>>
  /\ UNCHANGED outside_service

\* GET /health of the router: AudioAnalyzer.health_check and the status code
HealthCheck ==
  /\ Accepting
  /\ app.audio_analyzer
  /\ LET details == health_check(mgr, stats)
     IN  app' = [app EXCEPT !.health = [details EXCEPT !.statistics = NoStatsAnswer],
                            !.statistics = details.statistics,
                            !.health_status_code = HealthStatusCode(details),
                            !.health_classifier = yamnet]
  /\ UNCHANGED <<mgr, stats, requests, yamnet, caller>>
  /\ UNCHANGED outside_service

ServiceNext ==
  \/ Startup
  \/ HubLoad
  \/ LoadClassNames
  \/ Shutdown
  \/ \E i \in Requests : PostAnalyzeAudio(i)
  \/ \E i \in Requests : DownloadEnds(i)
  \/ \E i \in Requests : PostAnalyzeUpload(i)
  \/ \E i \in Requests : UploadReadEnds(i)
  \/ \E i \in Requests : AnalyzeAudioFromFile(i)
  \/ GetAnalysisStats
  \/ HealthCheck

(***************************************************************************)
(* Tasks calling initialize, cleanup and get_classifier on a classifier    *)
(* and on the manager.  A task runs until its next await; the awaits of    *)
(* initialize are the two run_in_executor calls.                           *)
(***************************************************************************)
\* The number of calls the one task of SpecManager makes.
MaxManagerCalls == 4

\* The manager m as ManagerReady reads it.
Holding(m) == [classifier |-> m.classifier # 0, _initialized |-> m._initialized]

\* Two or more tasks, each calling initialize once, on one classifier that
\* is not initialized or on the manager.
RaceInit ==
  /\ classifiers = <<NewClassifier>>
  /\ manager = FreshManager
  /\ tasks = [t \in Tasks |-> [IdleTask EXCEPT !.budget = 1]]
  /\ hub_loads = <<>>
  \* nothing else runs
  /\ class_names = <<>>
  /\ scores = <<>>
  /\ mpc = "idle"
  /\ japanese_categories = <<>>
  /\ japanese_results = <<>>
  /\ other_call = NoOtherCall
  /\ previous_results = <<>>
  /\ env_scores = <<>>
  /\ primary_env = None
  /\ description = ""
  /\ audio_url = ""
  /\ max_retries = 0
  /\ fpc = "idle"
  /\ attempt = 0
  /\ fetches = 0
  /\ fetch_errors = <<>>
  /\ outcome = NoOutcome
  /\ proc = ProcIdle
  /\ yamnet = NewClassifier
  /\ caller = CallerIdle
  /\ mgr = NewManager
  /\ app = AppIdle
  /\ stats = NewStats
  /\ requests = [i \in Requests |-> FreeRequest]

\* One task calling the manager's methods one after the other.
ManagerInit ==
  /\ classifiers = <<>>
  /\ manager = FreshManager
  /\ tasks = [t \in Tasks |->
               IF t = 1 THEN [IdleTask EXCEPT !.budget = MaxManagerCalls]
               ELSE IdleTask]
  /\ hub_loads = <<>>
  \* nothing else runs
  /\ class_names = <<>>
  /\ scores = <<>>
  /\ mpc = "idle"
  /\ japanese_categories = <<>>
  /\ japanese_results = <<>>
  /\ other_call = NoOtherCall
  /\ previous_results = <<>>
  /\ env_scores = <<>>
  /\ primary_env = None
  /\ description = ""
  /\ audio_url = ""
  /\ max_retries = 0
  /\ fpc = "idle"
  /\ attempt = 0
  /\ fetches = 0
  /\ fetch_errors = <<>>
  /\ outcome = NoOutcome
  /\ proc = ProcIdle
  /\ yamnet = NewClassifier
  /\ caller = CallerIdle
  /\ mgr = NewManager
  /\ app = AppIdle
  /\ stats = NewStats
  /\ requests = [i \in Requests |-> FreeRequest]

\* The task t may start a call.
MayStart(t) == tasks[t].pc = "idle" /\ tasks[t].calls < tasks[t].budget

\* The task after its call ended raising exc (NoExc: it returned).
Ended(task, exc) ==
  [task EXCEPT !.pc = "idle", !.loaded = 0, !.exc = exc, !.calls = @ + 1]

\* await classifier.initialize() on the first classifier: the guard, and
\* for a classifier that is not initialized the submission of hub.load.
CallInitialize(t) ==
  /\ MayStart(t)
  /\ LET call == [tasks[t] EXCEPT !.op = "initialize", !.target = 1, !.exc = NoExc]
     IN  tasks' = [tasks EXCEPT ![t] =
                     IF AlreadyInitialized(classifiers[1])
                     THEN Ended(call, NoExc)
                     ELSE [call EXCEPT !.pc = "hub_load"]]
  /\ UNCHANGED <<classifiers, manager, hub_loads>>
  /\ UNCHANGED outside_manager

\* await manager.initialize(): the guard, the new YAMNetClassifier, and its
\* initialize up to the submission of hub.load.
CallManagerInitialize(t) ==
  /\ MayStart(t)
  /\ LET call == [tasks[t] EXCEPT !.op = "manager.initialize", !.exc = NoExc]
     IN  IF manager._initialized
         THEN /\ tasks' = [tasks EXCEPT ![t] = Ended(call, NoExc)]
              /\ UNCHANGED <<classifiers, manager>>
         ELSE /\ classifiers' = Append(classifiers, NewClassifier)
              /\ manager' = [manager EXCEPT !.classifier = Len(classifiers) + 1]
              /\ tasks' = [tasks EXCEPT ![t] =
                              [call EXCEPT !.pc = "hub_load",
                                           !.target = Len(classifiers) + 1]]
  /\ UNCHANGED hub_loads
  /\ UNCHANGED outside_manager

\* The pending initialize of task t ends raising exc (NoExc: it returns).
\* Called through the manager, its exception is wrapped once more and its
\* return sets the manager's flag.
TaskInitializeEnds(t, exc) ==
  /\ tasks' = [tasks EXCEPT ![t] =
                 Ended(@, IF @.op = "manager.initialize" /\ exc # NoExc
                          THEN ManagerInitializationFailed(exc) ELSE exc)]
  /\ manager' = IF tasks[t].op = "manager.initialize" /\ exc = NoExc
                THEN [manager EXCEPT !._initialized = TRUE] ELSE manager

\* self.model = await loop.run_in_executor(None, hub.load, self.model_url)
\* of task t, up to the submission of _load_class_names with the class map
\* path of the model just stored.
TaskHubLoad(t) ==
  /\ tasks[t].pc = "hub_load"
  /\ \/ /\ classifiers' = [classifiers EXCEPT
                              ![tasks[t].target].model = Len(hub_loads) + 1]
        /\ hub_loads' = Append(hub_loads, tasks[t].target)
        /\ tasks' = [tasks EXCEPT ![t].pc = "load_class_names",
                                  ![t].loaded = Len(hub_loads) + 1]
        /\ UNCHANGED manager
     \/ /\ TaskInitializeEnds(t, InitializationFailed(Exc("OSError", "model not found")))
        /\ UNCHANGED <<classifiers, hub_loads>>
  /\ UNCHANGED outside_manager

\* self.class_names = await loop.run_in_executor(None, self._load_class_names,
\* ...) of task t, and then self._initialized = True.  The names are those
\* of the class map of the model this task loaded, whatever self.model
\* holds by now.
TaskLoadClassNames(t) ==
  /\ tasks[t].pc = "load_class_names"
  /\ \/ /\ classifiers' = [classifiers EXCEPT
                              ![tasks[t].target].class_names = tasks[t].loaded,
                              ![tasks[t].target]._initialized = TRUE]
        /\ TaskInitializeEnds(t, NoExc)
     \/ /\ TaskInitializeEnds(t, InitializationFailed(
                                    Exc("NotFoundError", "class map not found")))
        /\ UNCHANGED classifiers
  /\ UNCHANGED hub_loads
  /\ UNCHANGED outside_manager

\* await manager.cleanup()
ManagerCleanup(t) ==
  /\ MayStart(t)
  /\ classifiers' = IF manager.classifier # 0
                    THEN [classifiers EXCEPT ![manager.classifier] = CleanedUp(@)]
                    ELSE classifiers
  /\ manager' = ManagerCleanedUp(manager)
  /\ tasks' = [tasks EXCEPT ![t] =
                 Ended([@ EXCEPT !.op = "manager.cleanup", !.target = 0], NoExc)]
  /\ UNCHANGED hub_loads
  /\ UNCHANGED outside_manager

\* manager.get_classifier() and classify_audio on the classifier it
\* returned, as _perform_analysis calls them.
GetClassifier(t) ==
  /\ MayStart(t)
  /\ IF ~ManagerReady(Holding(manager))
     THEN tasks' = [tasks EXCEPT ![t] =
                      Ended([@ EXCEPT !.op = "get_classifier", !.target = 0],
                            ManagerNotInitialized)]
     ELSE \E run \in ServiceRuns :
          \E r \in {classify_audio(classifiers[manager.classifier], 1,
                                    ProcessedSamples, TARGET_SAMPLE_RATE, 1, run)} :
            tasks' = [tasks EXCEPT ![t] =
                        Ended([@ EXCEPT !.op = "get_classifier",
                                        !.target = manager.classifier],
                              r.exc)]
  /\ UNCHANGED <<classifiers, manager, hub_loads>>
  /\ UNCHANGED outside_manager

RaceNext ==
  \E t \in Tasks :
    CallInitialize(t) \/ CallManagerInitialize(t) \/ TaskHubLoad(t)
      \/ TaskLoadClassNames(t)

ManagerNext ==
  \E t \in Tasks :
    CallManagerInitialize(t) \/ TaskHubLoad(t) \/ TaskLoadClassNames(t)
      \/ ManagerCleanup(t) \/ GetClassifier(t)

(***************************************************************************)
(* Specifications.                                                         *)
(***************************************************************************)
\* The category mapper alone; no URL request is made.
SpecMapper == MapperInit /\ [][MapperNext]_vars

\* One URL request alone; the mapper is not called.
SpecFetch == FetchInit /\ [][FetchNext]_vars

\* One call of process_audio_from_bytes alone.
SpecProcess == ProcessInit /\ [][ProcessNext]_vars

\* One classifier and its caller alone.
SpecClassifier == ClassifierInit /\ [][ClassifierNext]_vars

\* The service: lifespan, manager, analyzer and routes.
SpecService == ServiceInit /\ [][ServiceNext]_vars

\* Concurrent first calls of initialize.
SpecInitRace == RaceInit /\ [][RaceNext]_vars

\* The manager's methods called one after the other.
SpecManager == ManagerInit /\ [][ManagerNext]_vars

(***************************************************************************)
(* Properties.  Helpers of the statements.                                 *)
(***************************************************************************)
\* The floats of a sequence added from the left, as sum() adds them.
RECURSIVE FloatSumOf(_, _, _)
FloatSumOf(fs, i, acc) ==
  IF i > Len(fs) THEN acc ELSE FloatSumOf(fs, i + 1, FloatAdd(acc, fs[i]))

\* The bounds of the tolerance: 1 - 1e-6 and 1 + 1e-6
OneLess == FloatOfQuotient(999999, 1000000)

OneMore == FloatOfQuotient(1000001, 1000000)

\* x is 1.0 within 1e-6
NearOne(x) == FloatLess(OneLess, x) /\ FloatLess(x, OneMore)

\* 0.5 and 0.25
Half == FloatOfQuotient(1, 2)

Quarter == FloatOfQuotient(1, 4)

\* _convert_to_japanese has returned.
Converted == mpc \in {"converted", "estimated", "other", "repeated", "described"}

\* _estimate_environment_type has returned.
Estimated == mpc \in {"estimated", "other", "repeated", "described"}

Confidences == [i \in DOMAIN japanese_results |-> japanese_results[i].confidence]

Labels == {japanese_results[i].label : i \in DOMAIN japanese_results}

\* Pair i of the arguments passes the 0.001 threshold.
Retained(i) == ~FloatLess(scores[i], MIN_SCORE)

\* Every class name that occurs in some argument list.
AllClassNames ==
  ClassNames \cup UNION {{inp.class_names[i] : i \in DOMAIN inp.class_names} :
                           inp \in ScenarioInputs}

\* _find_japanese_category, tabulated over the class names in use.
CategoryOf == [n \in AllClassNames |-> _find_japanese_category(n)]

\* The pairs that are retained and resolve to category c.
PairsOf(c) ==
  {i \in DOMAIN class_names : Retained(i) /\ CategoryOf[class_names[i]] = c}

\* The categories some retained pair resolves to.
MappedCategories ==
  {CategoryOf[class_names[i]] : i \in {j \in DOMAIN class_names : Retained(j)}}
  \ {None}

\* C1: whatever list of (class_name, score) pairs the category mapping is
\* given (the empty list and lists where nothing is retained included), it
\* returns at least one category, every confidence is a float in [0, 1] and
\* the sum of the confidences is 1.0 within 1e-6.
C1_ConfidencesSumToOne ==
  Converted =>
    /\ Len(japanese_results) >= 1
    /\ \A i \in DOMAIN japanese_results :
         ~FloatLess(FloatOne, japanese_results[i].confidence)
    /\ NearOne(FloatSumOf(Confidences, 1, FloatZero))

\* Two categories of different confidence were returned, and their sum is
\* within the tolerance without being 1.0: for the scores 0.3 and 0.1 it is
\* 0.7499999999999999 + 0.25 = 0.9999999999999999.
C1_Witness ==
  /\ mpc = "converted"
  /\ Len(japanese_results) = 2
  /\ FloatLess(japanese_results[2].confidence, japanese_results[1].confidence)
  /\ NearOne(FloatSumOf(Confidences, 1, FloatZero))
  /\ FloatSumOf(Confidences, 1, FloatZero) # FloatOne

\* The value of environment type t in env_scores.
EnvScore(t) == DictGet(env_scores, t)

\* The environment types with a keyword that occurs, ignoring case, in
\* class name n, tabulated over the class names in use.
EnvTypesOf ==
  [n \in AllClassNames |->
     {ENVIRONMENT_KEYWORDS[e][1] : e \in
        {f \in DOMAIN ENVIRONMENT_KEYWORDS :
           \E k \in DOMAIN ENVIRONMENT_KEYWORDS[f][2] :
              StrIn(lower(ENVIRONMENT_KEYWORDS[f][2][k]), lower(n))}}]

\* No class adds a positive score to any bucket.
NoEnvContribution ==
  \A i \in DOMAIN class_names : scores[i] = FloatZero \/ EnvTypesOf[class_names[i]] = {}

\* C2: environment scoring returns exactly the keys urban, natural, indoor,
\* outdoor, the sum of their values is 1.0 within the tolerance of floats
\* (1e-6), and when no class contributes to any bucket each value is 0.25.
C2_EnvScoresSumToOne ==
  Estimated =>
    /\ [i \in DOMAIN env_scores |-> env_scores[i].key] = ENV_TYPES
    /\ NearOne(DictFloatSum(env_scores))
    /\ NoEnvContribution =>
         \A i \in DOMAIN env_scores : env_scores[i].value = Quarter

\* A class with a positive score that matches no keyword: all four at 1/4.
C2_Witness ==
  /\ mpc = "estimated"
  /\ \E i \in DOMAIN class_names : FloatLess(FloatZero, scores[i])
  /\ NoEnvContribution
  /\ \A i \in DOMAIN env_scores : env_scores[i].value = Quarter

\* The largest score among the pairs of a non-empty set.
MaxScore(pairs) ==
  CHOOSE m \in {scores[i] : i \in pairs} : \A i \in pairs : ~FloatLess(m, scores[i])

\* C3: before normalisation a category holds the maximum of the scores of
\* the retained classes resolving to it (never their sum), and when all
\* retained classes resolve to one category the result is that category
\* alone with confidence 1.
C3_MaxAggregation ==
  Converted =>
    /\ MappedCategories # {} =>
         /\ {japanese_categories[i].key : i \in DOMAIN japanese_categories} = MappedCategories
         /\ \A i \in DOMAIN japanese_categories :
              japanese_categories[i].value = MaxScore(PairsOf(japanese_categories[i].key))
    /\ \A c \in MappedCategories :
         MappedCategories = {c} =>
           /\ Len(japanese_results) = 1
           /\ japanese_results[1].label = c
           /\ japanese_results[1].confidence = FloatOne

\* The scenario of the specification: Car 0.3 then Motor vehicle (road) 0.5,
\* one category whose stored score was replaced by the greater one.
C3_Witness ==
  /\ mpc = "converted"
  /\ class_names = <<"Car", "Motor vehicle (road)">>
  /\ scores = Scores(<<3000, 5000>>)
  /\ japanese_categories = <<[key |-> "car_sound", value |-> Score(5000)]>>
  /\ Len(japanese_results) = 1
  /\ japanese_results[1].label = "car_sound"
  /\ japanese_results[1].confidence = FloatOne

\* C4: a pair whose score is strictly below 0.001 is ignored and a score of
\* exactly 0.001 is retained: the labels returned are the categories of the
\* pairs with score >= 0.001; when no pair is retained and resolvable the
\* result is the single entry (unknown, 1.0); the unknown label never
\* appears together with another category.
C4_ThresholdAndFallback ==
  Converted =>
    /\ MappedCategories # {} => Labels = MappedCategories
    /\ MappedCategories = {} =>
         /\ Len(japanese_results) = 1
         /\ japanese_results[1].label = UNKNOWN_LABEL
         /\ japanese_results[1].confidence = FloatOne
    /\ UNKNOWN_LABEL \in Labels => Len(japanese_results) = 1

\* One pair at exactly the threshold is kept while a resolvable pair with a
\* positive score below it is dropped.
C4_Witness ==
  /\ mpc = "converted"
  /\ \E i, j \in DOMAIN class_names :
       /\ scores[i] = MIN_SCORE
       /\ FloatLess(FloatZero, scores[j]) /\ FloatLess(scores[j], MIN_SCORE)
       /\ CategoryOf[class_names[j]] # None
       /\ CategoryOf[class_names[j]] # CategoryOf[class_names[i]]
       /\ Labels = {CategoryOf[class_names[i]]}

\* Positions of the table keys that contain the lowered class name n or are
\* contained in it, ignoring case.
PartialHits(n) ==
  {i \in DOMAIN AUDIOSET_TO_JAPANESE :
     \/ StrIn(audioset_keys_lower[i], lower(n))
     \/ StrIn(lower(n), audioset_keys_lower[i])}

\* Positions of the keyword groups with a keyword occurring in n, lowered.
KeywordHits(n) ==
  {g \in DOMAIN keyword_mappings :
     \E k \in DOMAIN keyword_mappings[g][1] : StrIn(keyword_mappings[g][1][k], lower(n))}

\* Category c (or None) is what the three rules, in priority order and each
\* in table order, give for class name n.
Resolves(n, c) ==
  LET exact == {i \in DOMAIN AUDIOSET_TO_JAPANESE : AUDIOSET_TO_JAPANESE[i][1] = n}
      partial == PartialHits(n)
      keyword == KeywordHits(n)
  IN  IF exact # {}
      THEN \E i \in exact : AUDIOSET_TO_JAPANESE[i][2] = c
      ELSE IF partial # {}
      THEN \E i \in partial :
              /\ AUDIOSET_TO_JAPANESE[i][2] = c
              /\ \A j \in 1..(i - 1) : j \notin partial
      ELSE IF keyword # {}
      THEN \E g \in keyword :
              /\ keyword_mappings[g][2] = c
              /\ \A h \in 1..(g - 1) : h \notin keyword
      ELSE c = None

\* Every category of the two tables.
AllCategories ==
  {AUDIOSET_TO_JAPANESE[i][2] : i \in DOMAIN AUDIOSET_TO_JAPANESE}
  \cup {keyword_mappings[g][2] : g \in DOMAIN keyword_mappings}

\* What the three rules give for each class name in use.
RuleCategory ==
  [n \in AllClassNames |-> CHOOSE c \in AllCategories \cup {None} : Resolves(n, c)]

\* C5: a class is resolved by exact key lookup, else by the first table key
\* matching as a case-insensitive substring in either direction, else by the
\* first keyword group with a matching keyword; the labels returned are the
\* categories so resolved for the retained classes, and a class that no rule
\* matches contributes no label and no error.
C5_ResolutionPriority ==
  Converted =>
    /\ \A i \in DOMAIN class_names :
         Retained(i) => RuleCategory[class_names[i]] \in Labels \cup {None}
    /\ \A l \in Labels :
         \/ l = UNKNOWN_LABEL /\ Len(japanese_results) = 1
         \/ \E i \in DOMAIN class_names : Retained(i) /\ RuleCategory[class_names[i]] = l

\* "Machine gun" is no key and matches no key by substring; it matches the
\* keyword "ac" of the air-conditioner group and "gun" of the later gunshot
\* group, and gets the earlier group's category.
C5_Witness ==
  /\ mpc = "converted"
  /\ class_names = <<"Machine gun">>
  /\ Retained(1)
  /\ PartialHits("Machine gun") = {}
  /\ Cardinality({keyword_mappings[g][2] : g \in KeywordHits("Machine gun")}) = 2
  /\ Labels = {"air_conditioner_sound"}

\* Position of the first retained pair resolving to category c.
FirstSeen(c) == CHOOSE i \in PairsOf(c) : \A j \in PairsOf(c) : i <= j

\* The classification in between has been made.
OtherCalled == mpc \in {"other", "repeated", "described"}

BirdRainScenario ==
  /\ Estimated
  /\ class_names = <<"Bird", "Rain">>
  /\ scores = Scores(<<6000, 4000>>)

\* C7 as stated: for Bird 0.6 and Rain 0.4 the scores are natural = 1.0 and
\* urban = indoor = outdoor = 0.0, with primary environment natural.
C7_Original_NaturalOnly ==
  BirdRainScenario =>
    /\ EnvScore("natural") = FloatOne
    /\ EnvScore("urban") = FloatZero
    /\ EnvScore("indoor") = FloatZero
    /\ EnvScore("outdoor") = FloatZero
    /\ primary_env = "natural"

\* C7 amended: Bird and Rain are keywords of both the natural and the
\* outdoor list, so for Bird 0.6 and Rain 0.4 the scores are natural = 0.5,
\* outdoor = 0.5 and urban = indoor = 0.0, with primary environment natural.
C7_BirdRainNaturalAndOutdoor ==
  BirdRainScenario =>
    /\ EnvScore("natural") = Half
    /\ EnvScore("outdoor") = Half
    /\ EnvScore("urban") = FloatZero
    /\ EnvScore("indoor") = FloatZero
    /\ primary_env = "natural"

C7_Witness ==
  /\ mpc = "estimated"
  /\ class_names = <<"Bird", "Rain">>
  /\ scores = Scores(<<6000, 4000>>)
  /\ EnvScore("outdoor") = Half
  /\ primary_env = "natural"

\* Position of environment type t in the order urban, natural, indoor, outdoor.
EnvPosition(t) == CHOOSE i \in DOMAIN ENV_TYPES : ENV_TYPES[i] = t

\* C8: the primary environment has the maximum score and is the earliest, in
\* the order urban, natural, indoor, outdoor, of the keys having it; with
\* four equal scores it is urban.
C8_PrimaryIsFirstMaximum ==
  Estimated =>
    /\ primary_env \in {ENV_TYPES[i] : i \in DOMAIN ENV_TYPES}
    /\ \A t \in {ENV_TYPES[i] : i \in DOMAIN ENV_TYPES} :
         /\ ~FloatLess(EnvScore(primary_env), EnvScore(t))
         /\ EnvPosition(t) < EnvPosition(primary_env)
              => FloatLess(EnvScore(t), EnvScore(primary_env))
    /\ (\A t \in {ENV_TYPES[i] : i \in DOMAIN ENV_TYPES} :
          EnvScore(t) = EnvScore("urban"))
         => primary_env = "urban"

\* natural and outdoor tie for the maximum above urban: natural is primary.
C8_Witness ==
  /\ mpc = "estimated"
  /\ EnvScore("natural") = EnvScore("outdoor")
  /\ FloatLess(EnvScore("urban"), EnvScore("natural"))
  /\ FloatLess(EnvScore("indoor"), EnvScore("natural"))
  /\ EnvScore("urban") # FloatZero
  /\ primary_env = "natural"

\* The scores of the pairs from number i on whose class name holds,
\* ignoring case, some keyword of t, added to acc in the order of the pairs.
RECURSIVE ScoreSum(_, _, _)
ScoreSum(t, i, acc) ==
  IF i > Len(class_names) THEN acc
  ELSE ScoreSum(t, i + 1,
                IF t \in EnvTypesOf[class_names[i]]
                THEN FloatAdd(acc, scores[i]) ELSE acc)

\* What the classes add to bucket t: the score of every pair whose class
\* name holds, ignoring case, some keyword of t, counted once.
BucketSum(t) == ScoreSum(t, 1, FloatZero)

BucketTotal ==
  FloatAdd(FloatAdd(FloatAdd(BucketSum("urban"), BucketSum("natural")),
                    BucketSum("indoor")),
           BucketSum("outdoor"))

\* Unless the total is zero, every returned score is the sum of its bucket
\* divided by the total.
ScoresAreSumsOver(total) ==
  total # FloatZero =>
    \A t \in {ENV_TYPES[i] : i \in DOMAIN ENV_TYPES} :
      EnvScore(t) = FloatDiv(BucketSum(t), total)

\* C25: environment scoring applies no threshold: every class adds its full
\* score, however small, to every bucket one of whose keywords occurs,
\* ignoring case, in the class name, once per bucket however many keywords
\* of the bucket occur, and a class in which no keyword occurs adds
\* nothing; the returned scores are these sums over their total.
C25_EnvScoringNoThreshold == Estimated => ScoresAreSumsOver(BucketTotal)

\* C25 witness: a class holding two urban keywords (car, train) and one
\* keyword of natural and outdoor (rain), and Speech with a score below
\* 0.001.
C25_Witness ==
  /\ mpc = "estimated"
  /\ class_names = <<"Railroad car, train wagon", "Speech">>
  /\ scores = Scores(<<3000, 5>>)
  /\ EnvScore("urban") = Float(44714401, 44639878, -54)
  /\ EnvScore("natural") = EnvScore("urban")
  /\ EnvScore("indoor") = Float(38156289, 18407429, -63)

\* The environment types other than the primary one whose score is above
\* 0.2.
OthersAbove ==
  {t \in {ENV_TYPES[i] : i \in DOMAIN ENV_TYPES} :
     t # primary_env /\ FloatLess(PointTwo, EnvScore(t))}

\* The part of the description that lists the other types.
ElementsOf(listed) == " (with elements of " \o listed \o ")"

\* C26: the description is the text of the primary environment, followed by
\* exactly the other types whose score is strictly above 0.2, in the order
\* urban, natural, indoor, outdoor; when none is above 0.2 it is the text of
\* the primary environment alone, and with all four at 0.25 the three types
\* that are not primary are all listed.
C26_DescriptionListsOthersAbove ==
  mpc = "described" =>
    LET base == BaseDescription(primary_env)
        listed == SelectSeq(ENV_TYPES, LAMBDA t : t \in OthersAbove)
    IN  /\ StartsWith(description, base)
        /\ OthersAbove = {} <=> description = base
        /\ OthersAbove # {} => description = base \o ElementsOf(Join(listed, ", "))
        /\ (\A t \in {ENV_TYPES[i] : i \in DOMAIN ENV_TYPES} : EnvScore(t) = Quarter)
             => description = BaseDescription("urban")
                                \o ElementsOf("natural, indoor, outdoor")

\* C26 witness: one other type is exactly at 0.2 and is not listed.
C26_Witness ==
  /\ mpc = "described"
  /\ primary_env = "urban"
  /\ EnvScore("indoor") = PointTwo
  /\ description = BaseDescription("urban")

\* C26 second case: all four at 0.25.
C26_UniformListed ==
  /\ mpc = "described"
  /\ \A t \in {ENV_TYPES[i] : i \in DOMAIN ENV_TYPES} : EnvScore(t) = Quarter
  /\ description = BaseDescription("urban") \o ElementsOf("natural, indoor, outdoor")

\* The call of process_audio_from_url has ended.
FetchEnded == fpc \in {"returned", "raised"}

\* C9: with max_retries >= 0 the fetches are issued one after the other, each
\* only after all earlier ones failed (while a fetch is pending every
\* earlier one is recorded as failed), and never more than max_retries + 1;
\* when every attempt fails with a transport or status error exactly
\* max_retries + 1 fetches are issued and the call raises an error carrying
\* the error of the last attempt; the call ends with a result or an error,
\* never with nothing.
C9_BoundedSequentialRetries ==
  max_retries >= 0 =>
    /\ fetches <= max_retries + 1
    /\ fpc = "pending" => (fetches = attempt + 1 /\ Len(fetch_errors) = attempt)
    /\ fpc = "returned" => outcome.kind = "ProcessedAudio"
    /\ fpc = "raised" => outcome.kind \in {"ValueError", "RuntimeError", "CancelledError"}
    /\ (FetchEnded /\ fetches > 0 /\ Len(fetch_errors) = fetches) =>
         /\ fetches = max_retries + 1
         /\ fpc = "raised"
         /\ outcome.kind = "RuntimeError"
         /\ outcome.cause = fetch_errors[fetches]
         /\ outcome.cause.attempt = max_retries

\* max_retries = 2: a transport error, then two more failures, the last a
\* status error, which the raised error carries.
C9_Witness ==
  /\ fpc = "raised"
  /\ max_retries = 2
  /\ fetches = 3
  /\ Len(fetch_errors) = 3
  /\ fetch_errors[1].error = "transport_error"
  /\ outcome = [kind |-> "RuntimeError",
                cause |-> [error |-> "status_error", attempt |-> 2]]

\* C24: when the request is cancelled while a fetch attempt is in flight,
\* the call ends with the cancellation and issues no further fetch: the
\* cancellation is never handled as a failed attempt to retry, and the
\* attempts that were left are not used.
C24_CancelIsNotRetried ==
  /\ [](/\ \A i \in DOMAIN fetch_errors : fetch_errors[i].error # "cancelled"
        /\ outcome.kind = "CancelledError" =>
              /\ fpc = "raised"
              /\ fetches = attempt + 1
              /\ Len(fetch_errors) = attempt)
  /\ [][outcome.kind = "CancelledError" => fetches' = fetches]_vars

\* C24 witness: with three retries allowed, the first attempt failed and the
\* second was cancelled in flight.
C24_Witness ==
  /\ max_retries = 3
  /\ outcome.kind = "CancelledError"
  /\ fetches = 2
  /\ Len(fetch_errors) = 1

\* The failures of process_audio_from_bytes on downloaded bytes.
ProcessingFailures == {"empty_body", "bad_audio"}

\* C29: once an attempt got a successful response no further fetch is
\* issued: the call returns the processed audio, or a failure of the
\* processing ends it with an error at once, whatever number of retries
\* is left, and such a failure is never retried.
C29_NoFetchAfterSuccessfulResponse ==
  /\ [](/\ \A i \in DOMAIN fetch_errors :
              fetch_errors[i].error \notin ProcessingFailures
        /\ (outcome.kind = "RuntimeError"
              /\ outcome.cause.error \in ProcessingFailures) =>
              /\ fpc = "raised"
              /\ fetches = outcome.cause.attempt + 1
              /\ Len(fetch_errors) = outcome.cause.attempt
        /\ outcome.kind = "ProcessedAudio" =>
              /\ fpc = "returned"
              /\ fetches = attempt + 1
              /\ Len(fetch_errors) = attempt)
  /\ [][FetchEnded => fetches' = fetches]_vars

\* C29 witness: with three retries allowed, the first attempt downloaded
\* bytes that could not be processed.
C29_Witness ==
  /\ max_retries = 3
  /\ fpc = "raised"
  /\ outcome = [kind |-> "RuntimeError",
                cause |-> [error |-> "bad_audio", attempt |-> 0]]
  /\ fetches = 1

\* URLs whose scheme is neither http:// nor https://.
NonHttpUrls == {"ftp://host/a.wav", "file:///tmp/a.wav", "host/a.wav", "https:/host", ""}

\* C10: a URL whose scheme is neither http:// nor https:// is rejected with
\* ValueError and no fetch is ever issued for it.
C10_InvalidSchemeRejected ==
  audio_url \in NonHttpUrls =>
    /\ fetches = 0
    /\ fpc # "start" => (fpc = "raised" /\ outcome.kind = "ValueError")

C10_Witness ==
  /\ audio_url = "ftp://host/a.wav"
  /\ fpc = "raised"
  /\ outcome.kind = "ValueError"
  /\ fetches = 0

(***************************************************************************)
(* Properties of AudioProcessor: validation and preprocessing.             *)
(***************************************************************************)
\* _validate_audio_data has been called on the loaded waveform.
ValidationDone == proc.original_sr > 0 /\ proc.pc # "loaded"

\* process_audio_from_bytes has returned a ProcessedAudio.
Processed == proc.pc = "returned"

\* The run holding the sample at position i (from 1) of an array.
RECURSIVE RunAt(_, _)
RunAt(w, i) ==
  IF i <= Head(w).count THEN Head(w) ELSE RunAt(Tail(w), i - Head(w).count)

\* The positions at which the runs of an array end, counted from base.
RECURSIVE RunEnds(_, _)
RunEnds(w, base) ==
  IF w = <<>> THEN {}
  ELSE {base + Head(w).count} \cup RunEnds(Tail(w), base + Head(w).count)

\* The first n samples of a and of b are the same samples.  Both arrays are
\* constant between the ends of their runs, so it is enough to compare the
\* first sample and the samples on both sides of every end.
SameSamples(a, b, n) ==
  LET ends == RunEnds(a, 0) \cup RunEnds(b, 0)
      probes == ({1} \cup ends \cup {e + 1 : e \in ends}) \cap (1..n)
  IN  /\ WaveLen(a) >= n
      /\ WaveLen(b) >= n
      /\ \A i \in probes :
           /\ RunAt(a, i).kind = RunAt(b, i).kind
           /\ RunAt(a, i).value = RunAt(b, i).value

\* A fraction in lowest terms.
Reduced(f) ==
  LET g == GCD(f.num, f.den)
  IN  IF g = 0 THEN f ELSE Frac(f.num \div g, f.den \div g)

\* A returned sample lies in [-1.0, 1.0].
InUnitRange(sample) ==
  sample.square.den > 0 /\ sample.square.num <= sample.square.den

\* C11: the validation raises for the first check that fails, in the order
\* empty waveform, duration below 0.1 s, all samples zero, NaN or Inf
\* present, and raises nothing when none fails, however long the waveform.
C11_ValidationOrder ==
  ValidationDone =>
    LET w == proc.waveform
        n == WaveLen(w)
        short == 10 * n < proc.original_sr
        silent == \A i \in DOMAIN w : w[i].kind = "finite" /\ w[i].value = 0
        invalid == \E i \in DOMAIN w : w[i].kind # "finite"
        e == proc.validation
    IN  /\ e # NoExc => /\ e.type = "ValueError"
                        /\ proc.pc = "raised"
                        /\ proc.raised[1] = e
        /\ n = 0 => e.msg = "Empty audio waveform"
        /\ n > 0 /\ short => StartsWith(e.msg, "Audio too short: ")
        /\ n > 0 /\ ~short /\ silent =>
             e.msg = "Audio waveform contains only silence"
        /\ n > 0 /\ ~short /\ ~silent /\ invalid =>
             e.msg = "Audio waveform contains invalid values (NaN or Inf)"
        /\ n > 0 /\ ~short /\ ~silent /\ ~invalid =>
             e = NoExc /\ proc.pc \in {"validated", "returned"}

\* An all-zero waveform of 0.05 s was refused as too short.
C11_Witness ==
  /\ proc.pc = "raised"
  /\ proc.waveform = <<Finite(0, 800)>>
  /\ proc.original_sr = 16000
  /\ StartsWith(proc.validation.msg, "Audio too short: ")

\* C12: a returned ProcessedAudio has sample_rate 16000, and its
\* processing_info says resampled exactly when the rate librosa.load
\* reported is not 16000.
C12_SampleRateIsTarget ==
  Processed =>
    /\ proc.result.sample_rate = 16000
    /\ proc.result.processing_info.target_sample_rate = 16000
    /\ proc.result.processing_info.resampled <=> proc.original_sr # 16000

\* Audio decoded at 44100 Hz was returned as resampled audio at 16000 Hz.
C12_Witness ==
  /\ Processed
  /\ proc.original_sr = 44100
  /\ proc.result.processing_info.resampled
  /\ proc.result.sample_rate = 16000

\* C13: when the waveform has more than 480000 samples after the resampling
\* step, the truncation step keeps exactly its first 480000 samples and
\* truncated is true; otherwise the waveform keeps its length and truncated
\* is false.  The returned waveform has the length the truncation step
\* left.
C13_TruncationAfterResampling ==
  Processed =>
    LET after_resample == IF proc.original_sr = 16000 THEN proc.waveform
                          ELSE proc.resampled_waveform
        n == WaveLen(after_resample)
        info == proc.result.processing_info
    IN  /\ IF n > 480000
           THEN /\ info.truncated
                /\ WaveLen(proc.truncated_waveform) = 480000
                /\ SameSamples(proc.truncated_waveform, after_resample, 480000)
           ELSE /\ ~info.truncated
                /\ WaveLen(proc.truncated_waveform) = n
                /\ SameSamples(proc.truncated_waveform, after_resample, n)
        /\ WaveLen(proc.result.waveform) = WaveLen(proc.truncated_waveform)
        /\ WaveLen(proc.result.waveform) <= 480000

\* Audio of 240001 samples at 8000 Hz was resampled to 480002 samples and
\* cut to 480000.
C13_Witness ==
  /\ Processed
  /\ proc.original_sr = 8000
  /\ WaveLen(proc.waveform) = 240001
  /\ WaveLen(proc.resampled_waveform) = 480002
  /\ proc.result.processing_info.truncated
  /\ WaveLen(proc.result.waveform) = 480000

\* C14 as stated: every returned waveform was normalised (normalized is
\* true) and has all its samples in [-1, 1].
C14_Original_AlwaysNormalized ==
  Processed =>
    /\ proc.result.processing_info.normalized
    /\ \A i \in DOMAIN proc.result.waveform :
         InUnitRange(proc.result.waveform[i].sample)

\* C14, amended: the normalisation works on the waveform the truncation
\* step left.  When that waveform has a non-zero sample, every sample is
\* divided by ten times its RMS and clipped to [-1, 1], and normalized is
\* true; when it is all zero it is returned as it is and normalized is
\* false.  In both cases every returned sample lies in [-1, 1].
C14_NormalizedUnlessSilentAfterTruncation ==
  Processed =>
    LET t == proc.truncated_waveform
        out == proc.result.waveform
        n == WaveLen(t)
        ss == SumSquares(t)
        nonzero == \E i \in DOMAIN t : t[i].value # 0
    IN  /\ proc.result.processing_info.normalized <=> nonzero
        /\ DOMAIN out = DOMAIN t
        /\ \A i \in DOMAIN t :
             LET v == t[i].value
                 x == out[i].sample
             IN  /\ out[i].count = t[i].count
                 /\ x.sign = Sign(v)
                 /\ InUnitRange(x)
                 /\ nonzero =>
                      IF v * v * n > 100 * ss
                      THEN Reduced(x.square) = Frac(1, 1)
                      ELSE Reduced(x.square) = Reduced(Frac(v * v * n, 100 * ss))
                 /\ ~nonzero => x.square.num = 0

\* A waveform with one loud sample was normalised and that sample clipped
\* to 1.0, while the others stayed at 0.
C14_Witness ==
  /\ Processed
  /\ proc.result.processing_info.normalized
  /\ proc.waveform = <<Finite(0, 15999), Finite(4, 1)>>
  /\ proc.result.waveform[2].sample = Amp(1, Frac(1, 1))
  /\ proc.result.waveform[1].sample.square.num = 0

\* The call of process_audio_from_bytes has ended.
ProcessEnded == proc.pc \in {"returned", "raised"}

\* C17 as stated: when process_audio_from_bytes has returned or raised,
\* none of the files it created is left on disk.
C17_TempFilesDeleted == ProcessEnded => proc.files = {}

(***************************************************************************)
(* Properties of the classifier's lifecycle.                               *)
(***************************************************************************)
\* The call named op has just ended and no other call has started.
JustEnded(op) == caller.pc = "idle" /\ caller.last.op = op

NotInitialized == Exc("RuntimeError", "YAMNet model not initialized")

\* C15: in every sequence of initialize, classify_audio and cleanup calls, a
\* classify_audio call made while the classifier is not initialized (never
\* initialized, initialization failed, or cleaned up) raises the
\* not-initialized error and does not call the model, and an initialize
\* call made on an initialized classifier returns without error, loads
\* nothing and leaves the model and the class names as they were.
C15_InitializedGuards ==
  /\ (JustEnded("classify_audio") /\ ~caller.last.before._initialized)
       => /\ caller.last.exc = NotInitialized
          /\ caller.inferences = caller.last.inferences_before
          /\ caller.last.returned = NoClassification
  /\ (JustEnded("initialize") /\ caller.last.before._initialized)
       => /\ caller.last.exc = NoExc
          /\ caller.loads = caller.last.loads_before
          /\ yamnet = caller.last.before

\* C15 witness: initialize failed after the model was loaded, the
\* classification that followed was refused without calling the model, and a
\* later run reaches an initialize call on an initialized classifier.
C15_Witness ==
  \/ /\ JustEnded("classify_audio")
     /\ caller.history = <<"initialize", "classify_audio">>
     /\ caller.last.before.model # 0
     /\ ~caller.last.before._initialized
     /\ caller.last.exc = NotInitialized
     /\ caller.inferences = 0
  \/ /\ JustEnded("initialize")
     /\ caller.history = <<"initialize", "classify_audio", "initialize">>
     /\ caller.last.before._initialized
     /\ caller.inferences = 1
     /\ caller.loads = 1

\* C16: a classify_audio call with a sample rate other than 16000 is
\* rejected and the model is not called.
C16_OtherSampleRateRejected ==
  (JustEnded("classify_audio") /\ caller.last.sample_rate # TARGET_SAMPLE_RATE)
    => /\ caller.last.exc # NoExc
       /\ caller.inferences = caller.last.inferences_before

\* C30: classify_audio hands the same classes to the category mapping and
\* to the environment scoring: the top_k classes of the highest mean scores
\* (all classes if there are fewer), highest first; what it returns is made
\* of these alone, and for every top_k >= 0 the number of returned
\* categories is at least 1 and at most max(1, top_k).
C30_OnlyTopKClassesPassed ==
  (JustEnded("classify_audio") /\ caller.last.exc = NoExc) =>
    LET run == caller.last.run
        top_k == caller.last.top_k
        passed == caller.last.final_top_indices
        n == Len(run.mean_scores)
        others == (1..n) \ {passed[i] : i \in DOMAIN passed}
        results == caller.last.returned.japanese_results
        available == IF n < 20 THEN n ELSE 20
    IN  /\ Len(passed) = (IF top_k < available THEN top_k ELSE available)
        /\ \A i, j \in DOMAIN passed : i # j => passed[i] # passed[j]
        /\ \A i \in 1..(Len(passed) - 1) :
              run.mean_scores[passed[i]] >= run.mean_scores[passed[i + 1]]
        /\ \A i \in DOMAIN passed, j \in others :
              run.mean_scores[passed[i]] >= run.mean_scores[j]
        /\ caller.last.returned =
              Classified(ClassesAt(run, passed), ScoresAt(run, passed))
        /\ Len(results) >= 1
        /\ Len(results) <= (IF top_k > 1 THEN top_k ELSE 1)

\* C30 witness: three classes of which two fall into two categories, and
\* top_k = 1: Speech alone was passed and one category came back; the
\* environment scores hold nothing of Car.
C30_Witness ==
  /\ JustEnded("classify_audio") /\ caller.last.exc = NoExc
  /\ caller.last.top_k = 1
  /\ Len(caller.last.run.mean_scores) = 3
  /\ caller.last.final_top_indices = <<2>>
  /\ Len(caller.last.returned.japanese_results) = 1
  /\ DictGet(caller.last.returned.env_scores, "urban") = FloatZero

(***************************************************************************)
(* Properties of the service.                                              *)
(***************************************************************************)
\* The analyzer's exception for a failed analysis.
IsAnalysisFailure(e) ==
  e.type = "RuntimeError" /\ StartsWith(e.msg, "Audio analysis failed: ")

\* The request r has called analyze_audio_from_url, analyze_audio_from_bytes
\* or analyze_audio_from_file, the call has returned a result, the call has
\* raised an error, the call was cancelled.
AnalysisReturned(r) == r.pc = "done" /\ r.exc = NoExc

AnalysisRaised(r) == r.pc = "done" /\ IsAnalysisFailure(r.exc)

AnalysisCancelled(r) == r.pc = "done" /\ r.exc = Cancelled

AnalysisStarted(r) ==
  r.pc = "processing" \/ AnalysisReturned(r) \/ AnalysisRaised(r) \/ AnalysisCancelled(r)

NumberOf(P(_)) == Cardinality({i \in Requests : P(requests[i])})

\* C18: under any interleaving of concurrent analysis requests no counter
\* update is lost and no counter decreases: total_analyses is the number of
\* requests that started an analysis, successful_analyses the number whose
\* analysis returned a result, failed_analyses the number whose analysis
\* raised an error, and a step that reads the statistics leaves the stored
\* counters as they are.
C18_CountersExact ==
  /\ [](/\ stats.total_analyses = NumberOf(AnalysisStarted)
        /\ stats.successful_analyses = NumberOf(AnalysisReturned)
        /\ stats.failed_analyses = NumberOf(AnalysisRaised))
  /\ [][/\ stats'.total_analyses >= stats.total_analyses
        /\ stats'.successful_analyses >= stats.successful_analyses
        /\ stats'.failed_analyses >= stats.failed_analyses
        /\ (GetAnalysisStats \/ HealthCheck) => stats' = stats]_vars

\* C18 witness: two requests were processed at the same time: the second,
\* received while the first awaited its download, has returned a result
\* and the first is still being processed; the statistics were read then.
C18_Witness ==
  /\ requests[1].pc = "processing"
  /\ requests[2].route = "url" /\ AnalysisReturned(requests[2])
  /\ stats.total_analyses = 2
  /\ stats.successful_analyses = 1
  /\ stats.failed_analyses = 0
  /\ app.statistics = get_analyzer_stats(stats)

\* C19: health_check answers healthy only if the classifier was
\* initialized at that moment (flag set and model loaded, so that
\* classify_audio would not raise the not-initialized error); otherwise it
\* answers unhealthy and carries the message of the error that made it so;
\* it always answers.
C19_HealthyOnlyIfInitialized ==
  /\ app.health.status \in {"none", "healthy", "unhealthy"}
  /\ app.health.status = "healthy"
       => /\ ModelReady(app.health_classifier)
          /\ app.health.yamnet_initialized
          /\ app.health.error = ""
  /\ (app.health.status # "none" /\ ~ModelReady(app.health_classifier))
       => /\ app.health.status = "unhealthy"
          /\ app.health.error = ManagerNotInitialized.msg
          /\ ~app.health.yamnet_initialized

\* C19 witness: a request was analysed while the service was up, the manager
\* was cleaned up, and the health check that followed answered unhealthy.
C19_Witness ==
  /\ app.health.status = "unhealthy"
  /\ app.health.error = "YAMNetManager not initialized"
  /\ app.health_status_code = 503
  /\ ~app.health_classifier._initialized
  /\ stats.successful_analyses > 0

\* The first exception of the request is one of the client's faults
\* InvalidSource, UnsupportedFormat and EmptyInput.
ClientFault(cause) ==
  \/ cause = Exc("ValueError", "Invalid audio URL format")
  \/ cause.type = "RequestValidationError"
  \/ cause.type = "ValueError" /\ StartsWith(cause.msg, "Unsupported file type: ")
  \/ cause.type = "ValueError" /\ StartsWith(cause.msg, "Unsupported audio format: ")
  \/ cause = Exc("ValueError", "Empty audio data")
  \/ cause = Exc("ValueError", "Empty file uploaded")

\* C20: a request that fails for a client fault (InvalidSource,
\* UnsupportedFormat, EmptyInput) is answered with a 4xx status, not a 5xx.
C20_ClientFaultsAre4xx ==
  \A i \in Requests :
    (/\ requests[i].pc = "done"
     /\ requests[i].route \in {"url", "upload"}
     /\ ClientFault(requests[i].cause))
      => (400 <= requests[i].status /\ requests[i].status <= 499)


\* The stage at which the analysis of a request failed first, told from the
\* first exception raised.
FailedStage(cause) ==
  CASE cause.type = "ConnectError" -> "fetch"
    [] cause.type = "Error" -> "transcode"
    [] cause.type = "LibsndfileError" -> "decode"
    [] cause.type = "ValueError" -> "validation"
    [] cause = ManagerNotInitialized -> "not_initialized"
    [] cause.type = "InvalidArgumentError" -> "inference"
    [] OTHER -> "other"

\* C21: whenever an analysis request fails, at whichever stage, the message
\* of the error the analyzer raises contains the message of the error the
\* failing stage raised first, and the message of every wrapping layer
\* contains the message of the error it wraps.  The chains of wrapped errors
\* are the same in every state, so they are examined in the states in which
\* no request has been made yet.
C21_InnerMessageKept ==
  /\ \A i \in Requests :
        AnalysisRaised(requests[i]) =>
          /\ requests[i].cause.msg # ""
          /\ StrIn(requests[i].cause.msg, requests[i].exc.msg)
  /\ (\A i \in Requests : requests[i].pc = "free") =>
        \A retries \in RouteMaxRetries :
          \A ending \in UrlEndings(retries) \cup BytesEndings \cup FileEndings :
            \A k \in 1..(Len(ending) - 1) : StrIn(ending[k].msg, ending[k + 1].msg)

\* C21 witness: one request has failed at the validation of the downloaded
\* audio, under four wrapping layers, and another at the inference.
C21_Witness ==
  \E i, j \in Requests :
    /\ AnalysisRaised(requests[i]) /\ requests[i].route = "url"
    /\ FailedStage(requests[i].cause) = "validation"
    /\ requests[i].exc.msg # requests[i].cause.msg
    /\ AnalysisRaised(requests[j])
    /\ FailedStage(requests[j].cause) = "inference"
\* The call is one of process_audio_from_file with a path of the caller.
FileCall == proc.pc # "idle" /\ proc.temp_file = None /\ proc.file_path # None

\* Nothing was decoded or transcoded and no file was made.
NothingTouched ==
  /\ proc.pc \in {"start", "start_file", "raised"}
  /\ proc.files = {}
  /\ proc.temp_file = None
  /\ proc.waveform = <<>>
  /\ proc.result = NoResult

\* C22: an invalid source is rejected before anything is decoded or
\* transcoded: a path that does not exist fails with FileNotFoundError
\* whatever its extension, an existing path whose lower-cased extension is
\* not a supported format fails with ValueError "Unsupported audio format",
\* and an empty byte buffer fails with ValueError "Empty audio data" and no
\* temporary file is made.
C22_InvalidSourceRejectedFirst ==
  /\ (FileCall /\ ~proc.on_disk) =>
        /\ NothingTouched
        /\ proc.pc = "raised" =>
              proc.raised = <<Exc("FileNotFoundError",
                                  "Audio file not found: " \o PathStr(proc.file_path))>>
  /\ (FileCall /\ proc.on_disk
        /\ lower(PathSuffix(proc.file_path)) \notin SUPPORTED_FORMATS) =>
        /\ NothingTouched
        /\ proc.pc = "raised" =>
              proc.raised = <<Exc("ValueError", "Unsupported audio format: "
                                                 \o PathSuffix(proc.file_path))>>
  /\ (proc.pc # "idle" /\ ~FileCall /\ proc.audio_bytes = <<>>) =>
        /\ NothingTouched
        /\ proc.pc = "raised" =>
              proc.raised = <<Exc("ValueError", "Empty audio data")>>

\* C22 witness: a path that does not exist and has no supported extension
\* was refused as not found.
C22_Witness ==
  /\ FileCall /\ ~proc.on_disk /\ proc.pc = "raised"
  /\ lower(PathSuffix(proc.file_path)) \notin SUPPORTED_FORMATS
  /\ proc.raised[1].type = "FileNotFoundError"
(***************************************************************************)
(* Properties of initialize and cleanup under several calls.               *)
(***************************************************************************)
\* The number of models loaded for the classifiers whose numbers are in S.
LoadsFor(S) == Cardinality({i \in DOMAIN hub_loads : hub_loads[i] \in S})

\* C23 as stated: for any interleaving of concurrent initialize calls on one
\* classifier that was not initialized, or on the manager, the model is
\* loaded at most once (no call having failed).
C23_LoadedAtMostOnce ==
  (\A t \in Tasks : tasks[t].exc = NoExc) =>
    /\ LoadsFor({1}) <= 1
    /\ LoadsFor(2..Len(classifiers)) <= 1

\* C28: after any sequence of initialize calls, succeeding or failing at
\* either step, and cleanup calls made through the manager one after the
\* other: a classifier whose flag is set has its model and its class
\* names, a manager whose flag is set holds a classifier whose flag is
\* set, and inference on a classifier that get_classifier returned never
\* fails as not initialized.
C28_FlagsImplyLoaded ==
  /\ \A k \in DOMAIN classifiers :
        classifiers[k]._initialized =>
          classifiers[k].model # 0 /\ classifiers[k].class_names # 0
  /\ manager._initialized =>
        manager.classifier # 0 /\ classifiers[manager.classifier]._initialized
  /\ \A t \in Tasks :
        (tasks[t].op = "get_classifier" /\ tasks[t].target # 0) =>
          tasks[t].exc # NotInitialized

\* C28 witness: an initialize failed after the model was loaded, a second
\* one succeeded on a new classifier, the manager was cleaned up, and
\* get_classifier refused.
C28_Witness ==
  /\ tasks[1].calls = 4
  /\ tasks[1].op = "get_classifier" /\ tasks[1].exc = ManagerNotInitialized
  /\ Len(classifiers) = 2
  /\ classifiers[1].model # 0 /\ ~classifiers[1]._initialized
  /\ classifiers[2] = NewClassifier
  /\ LoadsFor({2}) = 1
\* The request r has left the analyzer: its analysis returned, raised, or
\* was cancelled.
AnalysisFinished(r) == AnalysisReturned(r) \/ AnalysisRaised(r) \/ AnalysisCancelled(r)

\* C27 as stated: every request that has left the analyzer, returning,
\* raising or cancelled, is counted in exactly one of successful_analyses
\* and failed_analyses; total_analyses is never below their sum and equals
\* it when no request is being processed.
C27_FinishedRequestsCounted ==
  /\ stats.successful_analyses + stats.failed_analyses = NumberOf(AnalysisFinished)
  /\ stats.total_analyses >= stats.successful_analyses + stats.failed_analyses
  /\ (\A i \in Requests : requests[i].pc # "processing") =>
        stats.total_analyses = stats.successful_analyses + stats.failed_analyses
====
